---- MODULE Spec2Model ----
(***************************************************************************)
(* A state-machine model of OrdoAudio (src/ordo-audio-lib/ordo-audio.js):  *)
(* the engine object (active-module set, per-module persistent state,      *)
(* listeners, analysis loop, audio context life cycle) and the analyzers   *)
(* whose state carries over from frame to frame.                           *)
(*                                                                         *)
(* Numbers.  JavaScript doubles are modelled by scaled integers:           *)
(*   - a time sample is an integer number of 1/4000 of full scale, so that *)
(*     the 4x linear interpolation of the true-peak analyzer is exact;     *)
(*   - a level in dB is an integer number of hundredths of a dB (cdB);     *)
(*     -Infinity is the integer NegInf, below every finite level;          *)
(*   - a spectral power 10^(dB/10) is an integer number of 1e-10;          *)
(*   - a frequency in Hz is an integer number of 1/32 Hz (the bin width    *)
(*     48000/4096 Hz is 375/32 Hz).                                        *)
(* A field that JavaScript leaves undefined is a field that is not in the  *)
(* DOMAIN of the record; null is the integer JsNull where the field is     *)
(* otherwise a non-negative number.                                        *)
(***************************************************************************)
EXTENDS Integers, Sequences, FiniteSets, TLC

VARIABLES
  activeModules,  \* this._activeModules: a set of strings
  moduleStates,   \* this._moduleStates: module name -> state record
  listeners,      \* this._listeners: event name -> sequence of callbacks
  isRunning,      \* this._isRunning
  animFrameId,    \* this._animFrameId (0 is null)
  rafPending,     \* ids of the animation-frame callbacks the browser holds
  frameCount,     \* this._frameCount
  audioContext,   \* "null", "running" or "closed"
  analyser,       \* this.analyser is not null
  analyserSettings, \* the analyser's fftSize, smoothingTimeConstant,
                  \* minDecibels and maxDecibels, once init() has set them
  options,        \* this.options
  callerOptions,  \* the options object the caller passed to the constructor
  timeDataRef,    \* this.timeData: a heap address (0 is null)
  freqDataRef,    \* this.freqData: a heap address (0 is null)
  heap,           \* contents of the live Float32Array buffers, by address
  result,         \* the object the last processFrame() returned
  emitted,        \* the _emit calls of the last handler, in order
  initPending,    \* init() calls suspended at await getUserMedia
  closePending,   \* destroy() calls suspended at await audioContext.close()
  clock,          \* Date.now(), in ms
  melFilterbank   \* MfccModule._melFilterbank, one per page (NoFilterbank
                  \* is null)

vars == <<activeModules, moduleStates, listeners, isRunning, animFrameId,
          rafPending, frameCount, audioContext, analyser,
          analyserSettings, options, callerOptions, timeDataRef,
          freqDataRef, heap, result, emitted, initPending, closePending,
          clock, melFilterbank>>

----------------------------------------------------------------------------
\* Bounds of the model

\* samples in a time-domain frame (the analyser's fftSize samples)
FrameLen == 2

\* frames processed in a run of each specification
ClipRunFrames == 63

PeakRunFrames == 5

SnrRunFrames == 33

EventsRunFrames == 27

ModulesRunFrames == 3

SessionRunFrames == 3

\* animation-frame callbacks that run in a run of SpecSession
SessionTicks == 4

\* callbacks registered at a time in a run of SpecSession
MaxListeners == 2

\* clip events in a run of SpecClip
MaxClipEvents == 2

\* frames processed in a run of SpecLufs
LufsRunFrames == 6

\* frames processed in a run of SpecSilence
SilenceRunFrames == 30

\* frames processed in a run of SpecPitch
PitchRunFrames == 8

\* clicks in a run of SpecTempo
TempoRunClicks == 18

\* frames processed in a run of SpecKey
KeyRunFrames == 4

\* frames processed in a run of SpecHold
HoldRunFrames == 90

\* frames at the start of a run of SpecHold that can clip
HoldClipFrames == 3

\* frames processed in a run of SpecOptions
OptionsRunFrames == 2

\* animation-frame callbacks that run in a run of SpecOptions
OptionsTicks == 3

\* frames processed in a run of SpecBuffers
BuffersRunFrames == 505

\* frames at the start of a run of SpecBuffers whose amplitude is free
BuffersFreeFrames == 2

\* frames at the start of a run of SpecBuffers that are loud
BuffersLoudFrames == 36

\* frames processed in a run of SpecLed
LedRunFrames == 126

\* frames at the start of a run of SpecLed in which the first clip can fall
LedFirstFrames == 2

\* frames at the start of a run of SpecLed in which a clip can fall
LedClipFrames == 63

\* clip events in a run of SpecLed
MaxLedClips == 2

\* frames processed in a run of SpecOnset
OnsetRunFrames == 22

\* frames at the start of a run of SpecOnset whose spectrum is free
OnsetFreeFrames == 8

\* frames processed in a run of SpecGate
GateRunFrames == 7

MelTicks == 6

DecayLoudFrames == 52

DecayRunFrames == 115

SamplePeakRunFrames == 2

LoopRunFrames == 4

MaxLoopListeners == 2

RestartRunFrames == 3

----------------------------------------------------------------------------
\* Units and program constants

FullScale == 4 * 1000

\* ms between two frames of the analysis loop (60 frames per second)
FrameMs == 17

\* ms between two clicks of a click train of 120 BPM
ClickMs == 500

NegInf == -999999

\* Infinity
PosInf == -NegInf

JsNull == -1

JsNaN == -2

ClipHoldFrames == 60

ClipThresholdCdb == -50

OverCeilingCdb == -100

CalibrationFrames == 30

MinDecibels == -100

MaxDecibels == 0

\* the default smoothingTimeConstant 0.8, in hundredths
DefaultSmoothing == 80

FluxHistoryLen == 20

OnsetTimesLen == 16

BpmHistoryLen == 8

MomentaryLen == 4

ShortTermLen == 30

FreqHistoryLen == 25

FeedbackHoldFrames == 50

FeedbackMinFrames == 20

\* Math.round(a / b) for positive a and b
RoundDiv(a, b) == (2 * a + b) \div (2 * b)

SampleRate == 48000

FftSize == 4096

FrequencyBinCount == FftSize \div 2

\* OrdoAudio.modules
Catalog ==
  {"rta", "spectral", "lufs", "truePeak", "dynamics", "pitch", "chroma",
   "mfcc", "onset", "thd", "snr", "zcr", "dcOffset", "clipping", "feedback",
   "phase", "rt60", "inharmonicity", "standingWaves"}

\* the set the constructor installs in this._activeModules
DefaultActiveModules ==
  {"rta", "spectral", "lufs", "truePeak", "dynamics", "pitch", "chroma",
   "mfcc", "onset", "thd", "snr", "zcr", "dcOffset", "clipping", "feedback",
   "phase", "rt60", "inharmonicity", "standingWaves"}

----------------------------------------------------------------------------
\* JavaScript objects as functions from field names

EmptyObject == [f \in {} |-> 0]

\* obj.f = v, creating the field when it is absent
Put(obj, f, v) == [k \in DOMAIN obj \cup {f} |-> IF k = f THEN v ELSE obj[k]]

\* !obj.f for a numeric field: undefined or 0 (-Infinity is truthy)
Falsy(obj, f) == f \notin DOMAIN obj \/ obj[f] = 0

\* !obj.f for a field that holds null or a non-negative number
FalsyOrNull(obj, f) == f \notin DOMAIN obj \/ obj[f] = 0 \/ obj[f] = JsNull

\* the fields of upd written over those of obj
Assign(obj, upd) ==
  [k \in DOMAIN obj \cup DOMAIN upd |-> IF k \in DOMAIN upd THEN upd[k] ELSE obj[k]]

\* if (!obj.f) obj.f = v, for a numeric field
Default(obj, f, v) == IF Falsy(obj, f) THEN Put(obj, f, v) ELSE obj

\* const x = v; ...: the rest of the function body, F, with x bound to v
With(v, F(_)) == F(v)

----------------------------------------------------------------------------
\* Utility functions

Abs(x) == IF x < 0 THEN -x ELSE x

Max(a, b) == IF a > b THEN a ELSE b

RECURSIVE SumSeq(_)
SumSeq(s) == IF s = <<>> THEN 0 ELSE Head(s) + SumSeq(Tail(s))

\* arr[lo] + ... + arr[hi], summed by halves
RECURSIVE SumRange(_, _, _)
SumRange(arr, lo, hi) ==
  IF lo > hi THEN 0
  ELSE IF lo = hi THEN arr[lo]
  ELSE With((lo + hi) \div 2, LAMBDA mid :
         SumRange(arr, lo, mid) + SumRange(arr, mid + 1, hi))

\* mean(arr), rounded towards zero; an empty array gives NaN in the code and
\* is never passed here
Mean(arr) == SumSeq(arr) \div Len(arr)

\* circularPush as it would be if a full buffer gave up its newest entry
CircularPushNewest(arr, val, maxLen) ==
  IF Len(arr) >= maxLen
    THEN Append(SubSeq(arr, 1, Len(arr) - 1), val)
    ELSE Append(arr, val)

\* circularPush(arr, val, maxLen)
CircularPush(arr, val, maxLen) ==
  LET pushed == Append(arr, val)
  IN  IF Len(pushed) > maxLen THEN Tail(pushed) ELSE pushed

\* 20*log10 on the amplitude grid: <<a, d>> reads "an amplitude of at most
\* a/4000 has a level of at most d cdB".  The level of an amplitude is the d of
\* the first entry that covers it, so that the level is monotonic in the
\* amplitude, is 0 exactly at full scale, and exceeds -0.5 dB (-1 dB) exactly
\* when the amplitude exceeds 10^(-0.5/20) (10^(-1/20)).
DbSteps ==
  << <<4, -6000>>, <<40, -4000>>, <<400, -2000>>, <<1004, -1200>>,
     <<2004, -600>>, <<2831, -300>>, <<3177, -200>>, <<3565, -100>>,
     <<3776, -50>>, <<3999, -1>>, <<4000, 0>>, <<4488, 100>> >>

\* linToDb(linear)
LinToDb(linear) ==
  IF linear > 0
    THEN IF linear > DbSteps[Len(DbSteps)][1]
           THEN 602
           ELSE LET i == CHOOSE k \in 1..Len(DbSteps) :
                           /\ linear <= DbSteps[k][1]
                           /\ \A j \in 1..(k - 1) : linear > DbSteps[j][1]
                IN  DbSteps[i][2]
    ELSE NegInf

\* the largest |sample| of a buffer (0 for an empty one)
RECURSIVE MaxAbs(_)
MaxAbs(s) == IF s = <<>> THEN 0 ELSE Max(Abs(Head(s)), MaxAbs(Tail(s)))

----------------------------------------------------------------------------
\* ClippingModule.process(timeData, state)

\* ClippingModule.process as it would be if a clip during the hold left the
\* hold counter running
ClippingProcessNoRestart(timeData, state) ==
  With(Default(Default(Default(state, "clipHold", 0), "peakDb", NegInf),
               "clipCount", 0), LAMBDA s1 :
  With(Cardinality({i \in DOMAIN timeData :
                      Abs(timeData[i]) * 10000 >= 9999 * FullScale}),
       LAMBDA clippedSamples :
  With(LinToDb(MaxAbs(timeData)), LAMBDA peakDb :
  With(IF peakDb > s1.peakDb THEN [s1 EXCEPT !.peakDb = peakDb] ELSE s1,
       LAMBDA s2 :
  With(peakDb > ClipThresholdCdb, LAMBDA isClipping :
  With(IF isClipping /\ s2.clipHold = 0
         THEN [s2 EXCEPT !.clipHold = ClipHoldFrames, !.clipCount = @ + 1]
         ELSE IF isClipping
                THEN [s2 EXCEPT !.clipCount = @ + 1]
                ELSE IF s2.clipHold > 0
                       THEN [s2 EXCEPT !.clipHold = @ - 1]
                       ELSE s2,
       LAMBDA s3 :
    [state |-> s3,
     out |-> [peakDb |-> peakDb,
              allTimePeak |-> s3.peakDb,
              isClipping |-> isClipping,
              clipLedActive |-> s3.clipHold > 0,
              clippedSamples |-> clippedSamples,
              clipRatio |-> <<clippedSamples, Len(timeData)>>,
              totalClipEvents |-> s3.clipCount]]))))))

\* ClippingModule.process as it would be if the event counter ran for as long
\* as the clip indicator is held
ClippingProcessRecount(timeData, state) ==
  With(Default(Default(Default(state, "clipHold", 0), "peakDb", NegInf),
               "clipCount", 0), LAMBDA s1 :
  With(LinToDb(MaxAbs(timeData)), LAMBDA peakDb :
  With(IF peakDb > s1.peakDb THEN [s1 EXCEPT !.peakDb = peakDb] ELSE s1,
       LAMBDA s2 :
  With(IF peakDb > ClipThresholdCdb
         THEN [s2 EXCEPT !.clipHold = ClipHoldFrames, !.clipCount = @ + 1]
         ELSE IF s2.clipHold > 0
                THEN [s2 EXCEPT !.clipHold = @ - 1, !.clipCount = @ + 1]
                ELSE s2,
       LAMBDA s3 :
    [state |-> s3,
     out |-> [peakDb |-> peakDb,
              allTimePeak |-> s3.peakDb,
              isClipping |-> peakDb > ClipThresholdCdb,
              clipLedActive |-> s3.clipHold > 0,
              clippedSamples |-> 0,
              clipRatio |-> <<0, Len(timeData)>>,
              totalClipEvents |-> s3.clipCount]]))))

ClippingProcess(timeData, state) ==
  With(Default(Default(Default(state, "clipHold", 0), "peakDb", NegInf),
               "clipCount", 0), LAMBDA s1 :
  With(Cardinality({i \in DOMAIN timeData :
                      Abs(timeData[i]) * 10000 >= 9999 * FullScale}),
       LAMBDA clippedSamples :
  With(LinToDb(MaxAbs(timeData)), LAMBDA peakDb :
  With(IF peakDb > s1.peakDb THEN [s1 EXCEPT !.peakDb = peakDb] ELSE s1,
       LAMBDA s2 :
  With(peakDb > ClipThresholdCdb, LAMBDA isClipping :
  With(IF isClipping
         THEN [s2 EXCEPT !.clipHold = ClipHoldFrames, !.clipCount = @ + 1]
         ELSE IF s2.clipHold > 0
                THEN [s2 EXCEPT !.clipHold = @ - 1]
                ELSE s2,
       LAMBDA s3 :
    [state |-> s3,
     out |-> [peakDb |-> peakDb,
              allTimePeak |-> s3.peakDb,
              isClipping |-> isClipping,
              clipLedActive |-> s3.clipHold > 0,
              clippedSamples |-> clippedSamples,
              clipRatio |-> <<clippedSamples, Len(timeData)>>,
              totalClipEvents |-> s3.clipCount]]))))))

----------------------------------------------------------------------------
\* TruePeakModule

\* _oversample(timeData): 4 output samples for each input sample but the last;
\* the Float32Array is zero-filled, so the last 4 output samples stay 0
Oversample(timeData) ==
  [k \in 1..(4 * Len(timeData)) |->
     LET i == (k - 1) \div 4 + 1
         ph == (k - 1) % 4
     IN  IF i >= Len(timeData)
           THEN 0
           ELSE ((4 - ph) * timeData[i] + ph * timeData[i + 1]) \div 4]

\* TruePeakModule.process(timeData, state)
TruePeakProcess(timeData, state) ==
  With(Default(state, "truePeakHold", NegInf), LAMBDA s1 :
  With(LinToDb(MaxAbs(Oversample(timeData))), LAMBDA truePeakDb :
  With(IF truePeakDb > s1.truePeakHold
         THEN [s1 EXCEPT !.truePeakHold = truePeakDb]
         ELSE s1,
       LAMBDA s2 :
    [state |-> s2,
     out |-> [truePeak |-> truePeakDb,
              truePeakHold |-> s2.truePeakHold,
              isOver |-> truePeakDb > OverCeilingCdb]])))

----------------------------------------------------------------------------
\* The magnitude spectrum.  Of the FrequencyBinCount bins the model lets the
\* bins of ModelBins vary; every other bin holds MinDecibels in every frame.
\* freqData is a function from ModelBins to whole dB.  Bin 20 (234 Hz) lies in
\* the band of the standing-wave snapshot, bins 85 and 86 (996 and 1008 Hz)
\* above the feedback detector's 250 Hz floor.

ModelBins == {20, 85, 86}

RECURSIVE Pow10(_)
Pow10(n) == IF n <= 0 THEN 1 ELSE 10 * Pow10(n - 1)

\* Math.pow(10, db / 10) in units of 1e-10, for db a multiple of 10
Power(db) == Pow10((db + 100) \div 10)

RECURSIVE SumOver(_, _)
SumOver(f, S) ==
  IF S = {} THEN 0
  ELSE LET x == CHOOSE y \in S : TRUE IN f[x] + SumOver(f, S \ {x})

\* mean(Array.from(freqData).map((db) => Math.pow(10, db / 10)))
AvgPower(freqData) ==
  (SumOver([b \in ModelBins |-> Power(freqData[b])], ModelBins)
     + (FrequencyBinCount - Cardinality(ModelBins)) * Power(MinDecibels))
    \div FrequencyBinCount

\* 10 * Math.log10(ratio) for ratio = num / den >= 1, rounded down to 10 dB
RECURSIVE Decades(_, _)
Decades(num, den) ==
  IF num \div 10 >= den THEN 1 + Decades(num \div 10, den) ELSE 0

----------------------------------------------------------------------------
\* SnrModule.process(freqData, state)

SnrProcess(freqData, state) ==
  With(IF FalsyOrNull(state, "noiseFloorEstimate")
         THEN Assign(state, [noiseFloorEstimate |-> JsNull,
                             noiseFrames |-> <<>>,
                             calibrating |-> TRUE,
                             calibrationFrames |-> CalibrationFrames])
         ELSE state,
       LAMBDA s1 :
  With(AvgPower(freqData), LAMBDA avgPower :
    IF s1.calibrating /\ Len(s1.noiseFrames) < s1.calibrationFrames
      THEN [state |-> [s1 EXCEPT !.noiseFrames = Append(@, avgPower)],
            out |-> [snr |-> JsNull, calibrating |-> TRUE,
                     noiseFloor |-> JsNull]]
      ELSE With(IF s1.calibrating
                  THEN [s1 EXCEPT
                          !.noiseFloorEstimate = Mean(s1.noiseFrames),
                          !.calibrating = FALSE]
                  ELSE s1,
                LAMBDA s2 :
           With(s2.noiseFloorEstimate, LAMBDA noisePower :
             [state |-> s2,
              out |-> [snr |-> IF noisePower > 0
                                 THEN 10 * Decades(Max(avgPower, noisePower),
                                                   noisePower)
                                 ELSE 0,
                       calibrating |-> FALSE,
                       noiseFloor |-> 10 * Decades(noisePower, 1) - 100,
                       signalLevel |-> 10 * Decades(avgPower, 1) - 100]]))))

----------------------------------------------------------------------------
\* Reading the spectrum

\* freqData[i]
Level(freqData, i) == IF i \in ModelBins THEN freqData[i] ELSE MinDecibels

\* the bins of lo..hi that can hold the first maximum: the model's bins and
\* the lowest of the other bins
Candidates(lo, hi) ==
  LET others == {i \in lo..(lo + Cardinality(ModelBins)) :
                   i <= hi /\ i \notin ModelBins}
  IN  (ModelBins \cap (lo..hi))
        \cup {i \in others : \A j \in others : i <= j}

\* the scan "if (freqData[i] > maxDb) { maxDb = freqData[i]; bin = i }" over
\* lo..hi, from maxDb = -Infinity and bin = 0
PeakScan(freqData, lo, hi) ==
  LET C == Candidates(lo, hi)
  IN  IF C = {}
        THEN [db |-> NegInf, bin |-> 0]
        ELSE LET b == CHOOSE i \in C :
                        \A j \in C :
                          \/ Level(freqData, i) > Level(freqData, j)
                          \/ Level(freqData, i) = Level(freqData, j) /\ i <= j
             IN  [db |-> Level(freqData, b), bin |-> b]

\* variance(arr) of integers whose spread is small enough to square
Variance(arr) ==
  With(Mean(arr), LAMBDA m :
    SumSeq([i \in 1..Len(arr) |-> (arr[i] - m) * (arr[i] - m)]) \div Len(arr))

RECURSIVE SelectPositive(_)
SelectPositive(s) ==
  IF s = <<>> THEN <<>>
  ELSE IF Head(s) > 0 THEN <<Head(s)>> \o SelectPositive(Tail(s))
       ELSE SelectPositive(Tail(s))

RECURSIVE MinSeq(_)
MinSeq(s) ==
  IF Len(s) = 1 THEN Head(s)
  ELSE LET r == MinSeq(Tail(s)) IN IF Head(s) < r THEN Head(s) ELSE r

RECURSIVE MaxSeq(_)
MaxSeq(s) ==
  IF Len(s) = 1 THEN Head(s)
  ELSE LET r == MaxSeq(Tail(s)) IN IF Head(s) > r THEN Head(s) ELSE r

\* clamp(val, min, max)
Clamp(val, lo, hi) == IF val < lo THEN lo ELSE IF val > hi THEN hi ELSE val

----------------------------------------------------------------------------
\* OnsetModule.process(freqData, state, sampleRate, fftSize), at Date.now() =
\* now.  bpm values are in 1/100 BPM, confidence in 1/1000.

\* Math.round(0.25 * sampleRate / fftSize)
MinOnsetGap == RoundDiv(SampleRate, 4 * FftSize)

\* clamp(1 - variance(bpmHistory) / 100, 0, 1); NaN for an empty history
BpmConfidence(bpmHistory) ==
  IF bpmHistory = <<>>
    THEN JsNaN
    ELSE With(Mean(bpmHistory), LAMBDA m :
           IF \E i \in 1..Len(bpmHistory) : Abs(bpmHistory[i] - m) >= 3000
             THEN 0
             ELSE Clamp(1000 - Variance(bpmHistory) \div 1000, 0, 1000))

\* OnsetModule.process as it would be if an onset were allowed as soon as
\* minOnsetGap frames have passed since the last one
OnsetProcessAtGap(freqData, state, now) ==
  With(IF "prevFreqData" \notin DOMAIN state
         THEN Assign(state, [prevFreqData |-> [b \in ModelBins |-> 0],
                             onsetTimes |-> <<>>,
                             lastOnsetFrame |-> 0,
                             frameCount |-> 0,
                             bpmHistory |-> <<>>,
                             bpm |-> 0])
         ELSE state,
       LAMBDA s1 :
  With(SumOver([b \in ModelBins |->
                  Max(0, freqData[b] - s1.prevFreqData[b])], ModelBins),
       LAMBDA flux :
  With([s1 EXCEPT !.prevFreqData = freqData, !.frameCount = @ + 1],
       LAMBDA s2 :
  With(IF "fluxHistory" \notin DOMAIN s2
         THEN Put(s2, "fluxHistory", <<>>)
         ELSE s2,
       LAMBDA s3 :
  With([s3 EXCEPT !.fluxHistory = CircularPush(@, flux, FluxHistoryLen)],
       LAMBDA s4 :
  \* flux > 1.5 * mean(fluxHistory), and the gap since the last onset
  With(/\ 2 * flux * Len(s4.fluxHistory) > 3 * SumSeq(s4.fluxHistory)
       /\ s4.frameCount - s4.lastOnsetFrame >= MinOnsetGap,
       LAMBDA isOnset :
  With(CircularPush(s4.onsetTimes, now, OnsetTimesLen), LAMBDA times :
  \* the intervals sum to the span of the buffer
  With(times[Len(times)] - times[1], LAMBDA span :
  With(Len(times) - 1, LAMBDA n :
  With(Len(times) >= 4 /\ span > 200 * n /\ span < 2000 * n, LAMBDA bpmOk :
  With(IF bpmOk
         THEN CircularPush(s4.bpmHistory, (6000000 * n) \div span,
                           BpmHistoryLen)
         ELSE s4.bpmHistory,
       LAMBDA history :
  With(IF isOnset
         THEN [s4 EXCEPT !.lastOnsetFrame = s4.frameCount,
                         !.onsetTimes = times,
                         !.bpmHistory = history,
                         !.bpm = IF bpmOk THEN Mean(history) ELSE @]
         ELSE s4,
       LAMBDA s5 :
    [state |-> s5,
     out |-> [flux |-> flux,
              isOnset |-> isOnset,
              bpm |-> RoundDiv(s5.bpm, 100),
              bpmRaw |-> s5.bpm,
              confidence |-> IF Len(s5.onsetTimes) > 4
                               THEN BpmConfidence(s5.bpmHistory)
                               ELSE 0]]))))))))))))

\* OnsetModule.process as it would be if the span of the onset times were
\* divided by the number of onsets instead of the number of intervals
OnsetProcessPerOnset(freqData, state, now) ==
  With(IF "prevFreqData" \notin DOMAIN state
         THEN Assign(state, [prevFreqData |-> [b \in ModelBins |-> 0],
                             onsetTimes |-> <<>>,
                             lastOnsetFrame |-> 0,
                             frameCount |-> 0,
                             bpmHistory |-> <<>>,
                             bpm |-> 0])
         ELSE state,
       LAMBDA s1 :
  With(SumOver([b \in ModelBins |->
                  Max(0, freqData[b] - s1.prevFreqData[b])], ModelBins),
       LAMBDA flux :
  With([s1 EXCEPT !.prevFreqData = freqData, !.frameCount = @ + 1],
       LAMBDA s2 :
  With(IF "fluxHistory" \notin DOMAIN s2
         THEN Put(s2, "fluxHistory", <<>>)
         ELSE s2,
       LAMBDA s3 :
  With([s3 EXCEPT !.fluxHistory = CircularPush(@, flux, FluxHistoryLen)],
       LAMBDA s4 :
  \* flux > 1.5 * mean(fluxHistory), and the gap since the last onset
  With(/\ 2 * flux * Len(s4.fluxHistory) > 3 * SumSeq(s4.fluxHistory)
       /\ s4.frameCount - s4.lastOnsetFrame > MinOnsetGap,
       LAMBDA isOnset :
  With(CircularPush(s4.onsetTimes, now, OnsetTimesLen), LAMBDA times :
  \* the intervals sum to the span of the buffer
  With(times[Len(times)] - times[1], LAMBDA span :
  With(Len(times) - 1, LAMBDA n :
  With(Len(times) >= 4 /\ span > 200 * n /\ span < 2000 * n, LAMBDA bpmOk :
  With(IF bpmOk
         THEN CircularPush(s4.bpmHistory, (6000000 * (n + 1)) \div span,
                           BpmHistoryLen)
         ELSE s4.bpmHistory,
       LAMBDA history :
  With(IF isOnset
         THEN [s4 EXCEPT !.lastOnsetFrame = s4.frameCount,
                         !.onsetTimes = times,
                         !.bpmHistory = history,
                         !.bpm = IF bpmOk THEN Mean(history) ELSE @]
         ELSE s4,
       LAMBDA s5 :
    [state |-> s5,
     out |-> [flux |-> flux,
              isOnset |-> isOnset,
              bpm |-> RoundDiv(s5.bpm, 100),
              bpmRaw |-> s5.bpm,
              confidence |-> IF Len(s5.onsetTimes) > 4
                               THEN BpmConfidence(s5.bpmHistory)
                               ELSE 0]]))))))))))))

OnsetProcess(freqData, state, now) ==
  With(IF "prevFreqData" \notin DOMAIN state
         THEN Assign(state, [prevFreqData |-> [b \in ModelBins |-> 0],
                             onsetTimes |-> <<>>,
                             lastOnsetFrame |-> 0,
                             frameCount |-> 0,
                             bpmHistory |-> <<>>,
                             bpm |-> 0])
         ELSE state,
       LAMBDA s1 :
  With(SumOver([b \in ModelBins |->
                  Max(0, freqData[b] - s1.prevFreqData[b])], ModelBins),
       LAMBDA flux :
  With([s1 EXCEPT !.prevFreqData = freqData, !.frameCount = @ + 1],
       LAMBDA s2 :
  With(IF "fluxHistory" \notin DOMAIN s2
         THEN Put(s2, "fluxHistory", <<>>)
         ELSE s2,
       LAMBDA s3 :
  With([s3 EXCEPT !.fluxHistory = CircularPush(@, flux, FluxHistoryLen)],
       LAMBDA s4 :
  \* flux > 1.5 * mean(fluxHistory), and the gap since the last onset
  With(/\ 2 * flux * Len(s4.fluxHistory) > 3 * SumSeq(s4.fluxHistory)
       /\ s4.frameCount - s4.lastOnsetFrame > MinOnsetGap,
       LAMBDA isOnset :
  With(CircularPush(s4.onsetTimes, now, OnsetTimesLen), LAMBDA times :
  \* the intervals sum to the span of the buffer
  With(times[Len(times)] - times[1], LAMBDA span :
  With(Len(times) - 1, LAMBDA n :
  With(Len(times) >= 4 /\ span > 200 * n /\ span < 2000 * n, LAMBDA bpmOk :
  With(IF bpmOk
         THEN CircularPush(s4.bpmHistory, (6000000 * n) \div span,
                           BpmHistoryLen)
         ELSE s4.bpmHistory,
       LAMBDA history :
  With(IF isOnset
         THEN [s4 EXCEPT !.lastOnsetFrame = s4.frameCount,
                         !.onsetTimes = times,
                         !.bpmHistory = history,
                         !.bpm = IF bpmOk THEN Mean(history) ELSE @]
         ELSE s4,
       LAMBDA s5 :
    [state |-> s5,
     out |-> [flux |-> flux,
              isOnset |-> isOnset,
              bpm |-> RoundDiv(s5.bpm, 100),
              bpmRaw |-> s5.bpm,
              confidence |-> IF Len(s5.onsetTimes) > 4
                               THEN BpmConfidence(s5.bpmHistory)
                               ELSE 0]]))))))))))))

----------------------------------------------------------------------------
\* FeedbackModule.process(freqData, sampleRate, fftSize, state).  Frequencies
\* are in 1/32 Hz: bin i lies at i * 375.

BinHz32 == (32 * SampleRate) \div FftSize

\* std < 20 Hz for a non-empty array of frequencies
StdBelow20(freqs) ==
  With(MinSeq(freqs), LAMBDA lo :
  With(Len(freqs), LAMBDA n :
  With(SumSeq([i \in 1..n |-> freqs[i] - lo]), LAMBDA sum :
  With(SumSeq([i \in 1..n |-> (freqs[i] - lo) * (freqs[i] - lo)]),
       LAMBDA sumSq :
    \* a spread of 103 Hz or more gives a deviation of 20 Hz or more
    /\ MaxSeq(freqs) - lo < 103 * 32
    /\ n * sumSq - sum * sum < 400 * 32 * 32 * n * n))))

\* FeedbackModule.process as it would be if every frame's dominant frequency
\* entered the history, whatever its level
FeedbackProcessUngated(freqData, state) ==
  With(IF "freqHistory" \notin DOMAIN state
         THEN Assign(state, [freqHistory |-> <<>>, holdCounter |-> 0,
                             ringingFreq |-> 0])
         ELSE state,
       LAMBDA s1 :
  With(PeakScan(freqData, (100 * 32) \div BinHz32, FrequencyBinCount - 1),
       LAMBDA peak :
  With(peak.bin * BinHz32, LAMBDA dominantHz :
  With([s1 EXCEPT !.freqHistory =
          CircularPush(@, dominantHz, FreqHistoryLen)],
       LAMBDA s2 :
  With(SelectPositive(s2.freqHistory), LAMBDA nonZero :
  With(/\ Len(s2.freqHistory) >= FreqHistoryLen
       /\ Len(nonZero) >= FeedbackMinFrames
       /\ StdBelow20(nonZero),
       LAMBDA ringing :
  With(IF ringing
         THEN [s2 EXCEPT !.holdCounter = FeedbackHoldFrames,
                         !.ringingFreq = Mean(nonZero)]
         ELSE s2,
       LAMBDA s3 :
  With(s3.holdCounter > 0, LAMBDA isFeedback :
  With(IF isFeedback THEN [s3 EXCEPT !.holdCounter = @ - 1] ELSE s3,
       LAMBDA s4 :
    [state |-> s4,
     out |-> [isFeedbackRisk |-> isFeedback,
              ringingFrequency |-> s4.ringingFreq,
              notchSuggestion |-> IF ringing THEN s4.ringingFreq ELSE JsNull,
              dominantFrequency |-> dominantHz,
              dominantDb |-> peak.db]])))))))))

\* FeedbackModule.process as it would be if the hold counter were decremented
\* in every frame
FeedbackProcessCountingOn(freqData, state) ==
  With(IF "freqHistory" \notin DOMAIN state
         THEN Assign(state, [freqHistory |-> <<>>, holdCounter |-> 0,
                             ringingFreq |-> 0])
         ELSE state,
       LAMBDA s1 :
  With(PeakScan(freqData, (100 * 32) \div BinHz32, FrequencyBinCount - 1),
       LAMBDA peak :
  With(peak.bin * BinHz32, LAMBDA dominantHz :
  With([s1 EXCEPT !.freqHistory =
          CircularPush(@, IF peak.db > -20 /\ dominantHz > 250 * 32
                            THEN dominantHz ELSE 0,
                       FreqHistoryLen)],
       LAMBDA s2 :
  With(SelectPositive(s2.freqHistory), LAMBDA nonZero :
  With(/\ Len(s2.freqHistory) >= FreqHistoryLen
       /\ Len(nonZero) >= FeedbackMinFrames
       /\ StdBelow20(nonZero),
       LAMBDA ringing :
  With(IF ringing
         THEN [s2 EXCEPT !.holdCounter = FeedbackHoldFrames,
                         !.ringingFreq = Mean(nonZero)]
         ELSE s2,
       LAMBDA s3 :
  With(s3.holdCounter > 0, LAMBDA isFeedback :
  With([s3 EXCEPT !.holdCounter = @ - 1],
       LAMBDA s4 :
    [state |-> s4,
     out |-> [isFeedbackRisk |-> isFeedback,
              ringingFrequency |-> s4.ringingFreq,
              notchSuggestion |-> IF ringing THEN s4.ringingFreq ELSE JsNull,
              dominantFrequency |-> dominantHz,
              dominantDb |-> peak.db]])))))))))

FeedbackProcess(freqData, state) ==
  With(IF "freqHistory" \notin DOMAIN state
         THEN Assign(state, [freqHistory |-> <<>>, holdCounter |-> 0,
                             ringingFreq |-> 0])
         ELSE state,
       LAMBDA s1 :
  With(PeakScan(freqData, (100 * 32) \div BinHz32, FrequencyBinCount - 1),
       LAMBDA peak :
  With(peak.bin * BinHz32, LAMBDA dominantHz :
  With([s1 EXCEPT !.freqHistory =
          CircularPush(@, IF peak.db > -20 /\ dominantHz > 250 * 32
                            THEN dominantHz ELSE 0,
                       FreqHistoryLen)],
       LAMBDA s2 :
  With(SelectPositive(s2.freqHistory), LAMBDA nonZero :
  With(/\ Len(s2.freqHistory) >= FreqHistoryLen
       /\ Len(nonZero) >= FeedbackMinFrames
       /\ StdBelow20(nonZero),
       LAMBDA ringing :
  With(IF ringing
         THEN [s2 EXCEPT !.holdCounter = FeedbackHoldFrames,
                         !.ringingFreq = Mean(nonZero)]
         ELSE s2,
       LAMBDA s3 :
  With(s3.holdCounter > 0, LAMBDA isFeedback :
  With(IF isFeedback THEN [s3 EXCEPT !.holdCounter = @ - 1] ELSE s3,
       LAMBDA s4 :
    [state |-> s4,
     out |-> [isFeedbackRisk |-> isFeedback,
              ringingFrequency |-> s4.ringingFreq,
              notchSuggestion |-> IF ringing THEN s4.ringingFreq ELSE JsNull,
              dominantFrequency |-> dominantHz,
              dominantDb |-> peak.db]])))))))))

----------------------------------------------------------------------------
\* PitchModule.process(timeData, sampleRate, threshold).  The search of steps
\* 1-4 runs over the 4096 samples of a real frame; its outcome is an input of
\* the model: yin.tauEstimate (the chosen lag, -1 when none), yin.betterTau
\* (the refined lag, in 1/1000 sample) and yin.cmndf (CMNDF at the chosen lag,
\* in 1/1000).  Confidence is in 1/1000, frequencies in 1/32 Hz.

\* PitchModule.process as it would be if a confidence of exactly 0.5 passed
\* the gate
PitchProcessAtLeast(yin) ==
  LET frequency == IF yin.betterTau > 0
                     THEN (SampleRate * 32 * 1000) \div yin.betterTau
                     ELSE 0
      confidence == IF yin.tauEstimate > 0
                      THEN Clamp(1000 - yin.cmndf, 0, 1000)
                      ELSE 0
  IN  [frequency |-> IF confidence >= 500 THEN frequency ELSE 0,
       rawFrequency |-> frequency,
       confidence |-> confidence]

PitchProcess(yin) ==
  LET frequency == IF yin.betterTau > 0
                     THEN (SampleRate * 32 * 1000) \div yin.betterTau
                     ELSE 0
      confidence == IF yin.tauEstimate > 0
                      THEN Clamp(1000 - yin.cmndf, 0, 1000)
                      ELSE 0
  IN  [frequency |-> IF confidence > 500 THEN frequency ELSE 0,
       rawFrequency |-> frequency,
       confidence |-> confidence]

----------------------------------------------------------------------------
\* ThdModule.process(freqData, sampleRate, fftSize, fundamentalHz)

\* getBinPower(targetHz)
BinPower(freqData, targetHz) ==
  LET bin == RoundDiv(targetHz, BinHz32)
  IN  IF bin < 0 \/ bin >= FrequencyBinCount
        THEN 0
        ELSE SumOver([i \in Max(0, bin - 2)..
                              (IF bin + 2 > FrequencyBinCount - 1
                                 THEN FrequencyBinCount - 1 ELSE bin + 2) |->
                        Power(Level(freqData, i))],
                     Max(0, bin - 2)..
                       (IF bin + 2 > FrequencyBinCount - 1
                          THEN FrequencyBinCount - 1 ELSE bin + 2))

\* clamp(Math.sqrt(num / den) * 100, 0, 100), rounded down
SqrtPercent(num, den) ==
  LET v == IF num >= den THEN 10000
           ELSE IF den < 200000 THEN (num * 10000) \div den
           ELSE num \div (den \div 10000)
  IN  CHOOSE k \in 0..100 : k * k <= v /\ (k = 100 \/ (k + 1) * (k + 1) > v)

ThdProcess(freqData, fundamentalHz) ==
  IF fundamentalHz = 0 \/ fundamentalHz < 20 * 32
    THEN [thd |-> 0, harmonics |-> <<>>]
    ELSE LET fundamentalPower == BinPower(freqData, fundamentalHz)
             last == CHOOSE n \in 1..8 :
                       /\ n = 1 \/ fundamentalHz * n <= 16 * SampleRate
                       /\ n = 8 \/ fundamentalHz * (n + 1) > 16 * SampleRate
             harmonics ==
               [k \in 1..(last - 1) |->
                  [harmonic |-> k + 1,
                   freq |-> fundamentalHz * (k + 1),
                   power |-> BinPower(freqData, fundamentalHz * (k + 1))]]
             harmonicPowerSum ==
               SumSeq([k \in 1..(last - 1) |-> harmonics[k].power])
         IN  [thd |-> IF fundamentalPower > 0
                        THEN SqrtPercent(harmonicPowerSum, fundamentalPower)
                        ELSE 0,
              harmonics |-> harmonics,
              fundamentalPower |-> fundamentalPower]

----------------------------------------------------------------------------
\* InharmonicityModule.process(freqData, sampleRate, fftSize, fundamentalHz).
\* Deviations are in 1/100 percent.

InharmonicityScore(inharmonicity) ==
  IF inharmonicity < 50 THEN "Very Clean"
  ELSE IF inharmonicity < 200 THEN "Normal"
  ELSE IF inharmonicity < 500 THEN "Stretched"
  ELSE "High"

InharmonicityProcess(freqData, fundamentalHz) ==
  IF fundamentalHz = 0 \/ fundamentalHz < 20 * 32
    THEN [inharmonicity |-> 0, harmonicsFound |-> <<>>,
          inharmonicityScore |-> "N/A"]
    ELSE LET last == CHOOSE n \in 1..10 :
                       /\ n = 1 \/ fundamentalHz * n <= 16 * SampleRate
                       /\ n = 10 \/ fundamentalHz * (n + 1) > 16 * SampleRate
             Found(n) ==
               LET idealHz == fundamentalHz * n
                   binLow == (95 * idealHz) \div (100 * BinHz32)
                   binHigh == (105 * idealHz + 100 * BinHz32 - 1)
                                \div (100 * BinHz32)
                   peak == PeakScan(freqData, binLow,
                                    IF binHigh > FrequencyBinCount - 1
                                      THEN FrequencyBinCount - 1
                                      ELSE binHigh)
               IN  [n |-> n, idealHz |-> idealHz,
                    actualHz |-> peak.bin * BinHz32,
                    deviation |->
                      ((peak.bin * BinHz32 - idealHz) * 10000) \div idealHz,
                    db |-> peak.db]
             found == {n \in 2..last : Found(n).db > -60}
             totalDeviation ==
               SumOver([n \in found |-> Abs(Found(n).deviation)], found)
             inharmonicity ==
               IF found = {} THEN 0 ELSE totalDeviation \div Cardinality(found)
         IN  [inharmonicity |-> inharmonicity,
              harmonicsFound |-> [n \in found |-> Found(n)],
              inharmonicityScore |-> InharmonicityScore(inharmonicity)]

----------------------------------------------------------------------------
\* The stateless time-domain analyzers

\* ZcrModule.process(timeData, sampleRate): crossings per second, rounded down
ZcrProcess(timeData) ==
  LET crossings ==
        Cardinality({i \in 2..Len(timeData) :
                       (timeData[i - 1] >= 0) # (timeData[i] >= 0)})
      zcr == (crossings * SampleRate) \div (2 * Len(timeData))
  IN  [zcr |-> zcr,
       type |-> IF zcr > 3000 THEN "noisy"
                ELSE IF zcr > 1000 THEN "mixed" ELSE "tonal"]

\* DcOffsetModule.process(timeData): |avg| > 0.005 is 200 * |sum| > n * 4000
DcOffsetProcess(timeData) ==
  LET sum == SumSeq(timeData)
      n == Len(timeData)
  IN  [dcOffset |-> sum \div n,
       dcOffsetDb |-> LinToDb(Abs(sum) \div n),
       hasIssue |-> 200 * Abs(sum) > n * FullScale,
       severity |-> IF 50 * Abs(sum) > n * FullScale THEN "critical"
                    ELSE IF 200 * Abs(sum) > n * FullScale THEN "warning"
                    ELSE "ok"]

\* PhaseModule.process(timeData, null): the mono branch
PhaseProcess ==
  [correlation |-> 1, monoCompatible |-> TRUE, phaseString |-> "Mono",
   width |-> 0]

----------------------------------------------------------------------------
\* LufsModule

\* a / b rounded towards zero
DivT(a, b) == IF a >= 0 THEN a \div b ELSE -((-a) \div b)

\* createKWeightingFilters(sampleRate) at 48 kHz, the coefficients in 1/10000
KWeightingFilters ==
  [preFilter |-> [b0 |-> 15340, b1 |-> -26917, b2 |-> 11996,
                  a1 |-> -16907, a2 |-> 7325,
                  x1 |-> 0, x2 |-> 0, y1 |-> 0, y2 |-> 0],
   hpFilter |-> [b0 |-> 9950, b1 |-> -2 * 9950, b2 |-> 9950,
                 a1 |-> -19900, a2 |-> 9901,
                 x1 |-> 0, x2 |-> 0, y1 |-> 0, y2 |-> 0]]

\* applyBiquad(filter, x): the output sample and the filter after the call
ApplyBiquad(filter, x) ==
  With(DivT(filter.b0 * x + filter.b1 * filter.x1 + filter.b2 * filter.x2
              - filter.a1 * filter.y1 - filter.a2 * filter.y2, 10000),
       LAMBDA y :
    [y |-> y,
     filter |-> [filter EXCEPT !.x2 = filter.x1, !.x1 = x,
                               !.y2 = filter.y1, !.y1 = y]])

\* the sample loop of LufsModule.process from sample i on: the filters and
\* the sum of the squared filtered samples after the last sample
RECURSIVE FilterBlock(_, _, _, _)
FilterBlock(timeData, i, filters, sumSquares) ==
  IF i > Len(timeData)
    THEN [filters |-> filters, sumSquares |-> sumSquares]
    ELSE With(ApplyBiquad(filters.preFilter, timeData[i]), LAMBDA pre :
         With(ApplyBiquad(filters.hpFilter, pre.y), LAMBDA hp :
           FilterBlock(timeData, i + 1,
                       [preFilter |-> pre.filter, hpFilter |-> hp.filter],
                       sumSquares + hp.y * hp.y)))

\* a / b for a >= 0: NaN for 0 / 0
JsDivide(a, b) == IF b = 0 THEN JsNaN ELSE a \div b

\* mean(arr) where an empty array can be passed: 0 / 0 is NaN
JsMean(arr) == JsDivide(SumRange(arr, 1, Len(arr)), Len(arr))

\* the mean square of a signal of constant amplitude 1.0, in the unit of the
\* squared samples
FullScaleSquare == FullScale * FullScale

\* 10^(i / 10) for i = 1..9, in 1/100
TenthDecades == <<126, 158, 200, 251, 316, 398, 501, 631, 794>>

\* whole dB steps from the power t down to the power ms <= t: the greatest k
\* with ms * 10^(k / 10) <= t, found a decade at a time.  A level below full
\* scale is so rounded up to the grid, and a mean square passes the absolute
\* gate of -70 LUFS on the grid exactly when it does in the code.
RECURSIVE DbBelow(_, _)
DbBelow(ms, t) ==
  IF ms * 10 <= t THEN 10 + DbBelow(ms * 10, t)
  ELSE Cardinality({i \in 1..9 : ms <= (t * 100) \div TenthDecades[i]})

\* dB steps from the power t up to the power ms >= t
RECURSIVE DbAbove(_, _)
DbAbove(ms, t) ==
  IF ms < (t \div 100) * 126 THEN 0 ELSE 1 + DbAbove(ms, (t \div 100) * 126)

\* -0.691 + 10 * Math.log10(ms) in cdB, on a grid of 1 dB: -Infinity for 0,
\* NaN for NaN and for a negative number
Loudness(ms) ==
  IF ms = 0 THEN NegInf
  ELSE IF ms < 0 THEN JsNaN
  ELSE IF ms >= FullScaleSquare
    THEN -69 + 100 * DbAbove(ms, FullScaleSquare)
    ELSE -69 - 100 * DbBelow(ms, FullScaleSquare)

\* the loudness of a mean square as it would be if the mean square were
\* floored at the smallest positive value instead of guarded
GuardedLoudnessFloored(ms) == Loudness(Max(ms, 1))

\* ms > 0 ? -0.691 + 10 * Math.log10(ms) : -Infinity (NaN > 0 is false)
GuardedLoudness(ms) == IF ms > 0 THEN Loudness(ms) ELSE NegInf

\* a > b for two levels, false when one of them is NaN
LevelGreater(a, b) == a # JsNaN /\ b # JsNaN /\ a > b

\* level - 10 (dB)
TenBelow(level) ==
  IF level = JsNaN \/ level = NegInf THEN level ELSE level - 1000

\* isFinite(level) ? level : -Infinity
FiniteOrNegInf(level) ==
  IF level = JsNaN \/ level = NegInf THEN NegInf ELSE level

\* array.filter(keep)
Filter(arr, keep(_)) == SelectSeq(arr, keep)

\* array.map(f)
Map(arr, f(_)) == [i \in 1..Len(arr) |-> f(arr[i])]

\* Math.floor(n * num / den)
FloorOf(n, num, den) == (n * num) \div den

\* state.integratedLufs after the gating of the integrated blocks
IntegratedLufs(integratedBlocks, integratedLufs) ==
  IF Len(integratedBlocks) > 0
    THEN With(TenBelow(Loudness(JsMean(integratedBlocks))), LAMBDA relGate :
         With(Filter(integratedBlocks,
                     LAMBDA ms : ms > 0 /\ LevelGreater(Loudness(ms), relGate)),
              LAMBDA gated :
           IF Len(gated) > 0 THEN Loudness(JsMean(gated))
           ELSE integratedLufs))
    ELSE integratedLufs

\* a - b for two levels
JsSubtract(a, b) ==
  IF a = JsNaN \/ b = JsNaN \/ (a = b /\ a \in {NegInf, PosInf}) THEN JsNaN
  ELSE IF a \in {NegInf, PosInf} THEN a
  ELSE IF b \in {NegInf, PosInf} THEN -b
  ELSE a - b

\* the loudness range as it would be if the levels of all the blocks of the
\* short-term buffer entered it, silent blocks included
LoudnessRangeUnfiltered(shortTermBuffer) ==
  With(Map(shortTermBuffer, Loudness), LAMBDA lraBlocks :
    IF Len(lraBlocks) > 1
      THEN With(SortSeq(lraBlocks, LAMBDA a, b : a < b), LAMBDA sorted :
             JsSubtract(sorted[FloorOf(Len(sorted), 95, 100) + 1],
                        sorted[FloorOf(Len(sorted), 10, 100) + 1]))
      ELSE 0)

\* the loudness range of the short-term buffer
LoudnessRange(shortTermBuffer) ==
  With(Filter(Map(Filter(shortTermBuffer, LAMBDA ms : ms > 0), Loudness),
              LAMBDA l : LevelGreater(l, -7000)),
       LAMBDA lraBlocks :
    IF Len(lraBlocks) > 1
      THEN With(SortSeq(lraBlocks, LAMBDA a, b : a < b), LAMBDA sorted :
             JsSubtract(sorted[FloorOf(Len(sorted), 95, 100) + 1],
                        sorted[FloorOf(Len(sorted), 10, 100) + 1]))
      ELSE 0)

\* LufsModule.process as it would be without the absolute gate: every block
\* enters the integrated loudness
LufsProcessUngated(timeData, state) ==
  With(IF "filters" \notin DOMAIN state
         THEN Assign(state, [filters |-> KWeightingFilters,
                             momentaryBuffer |-> <<>>,
                             shortTermBuffer |-> <<>>,
                             integratedBlocks |-> <<>>,
                             blockSamples |-> RoundDiv(SampleRate, 10),
                             sampleAccum |-> 0,
                             meanSquareAccum |-> 0,
                             integratedLufs |-> NegInf])
         ELSE state,
       LAMBDA s1 :
  With(FilterBlock(timeData, 1, s1.filters, 0), LAMBDA block :
  With(JsDivide(block.sumSquares, Len(timeData)), LAMBDA blockMeanSquare :
  With(CircularPush(s1.momentaryBuffer, blockMeanSquare, MomentaryLen),
       LAMBDA momentaryBuffer :
  With(GuardedLoudness(JsMean(momentaryBuffer)), LAMBDA momentaryLufs :
  With(CircularPush(s1.shortTermBuffer, blockMeanSquare, ShortTermLen),
       LAMBDA shortTermBuffer :
  With(GuardedLoudness(JsMean(shortTermBuffer)), LAMBDA shortTermLufs :
  With(Append(s1.integratedBlocks, blockMeanSquare),
       LAMBDA integratedBlocks :
  With(IntegratedLufs(integratedBlocks, s1.integratedLufs),
       LAMBDA integratedLufs :
    [state |-> [s1 EXCEPT !.filters = block.filters,
                          !.momentaryBuffer = momentaryBuffer,
                          !.shortTermBuffer = shortTermBuffer,
                          !.integratedBlocks = integratedBlocks,
                          !.integratedLufs = integratedLufs],
     out |-> [momentary |-> FiniteOrNegInf(momentaryLufs),
              shortTerm |-> FiniteOrNegInf(shortTermLufs),
              integrated |-> FiniteOrNegInf(integratedLufs),
              lra |-> LoudnessRange(shortTermBuffer)]])))))))))

\* LufsModule.process(timeData, state, sampleRate)
LufsProcess(timeData, state) ==
  With(IF "filters" \notin DOMAIN state
         THEN Assign(state, [filters |-> KWeightingFilters,
                             momentaryBuffer |-> <<>>,
                             shortTermBuffer |-> <<>>,
                             integratedBlocks |-> <<>>,
                             blockSamples |-> RoundDiv(SampleRate, 10),
                             sampleAccum |-> 0,
                             meanSquareAccum |-> 0,
                             integratedLufs |-> NegInf])
         ELSE state,
       LAMBDA s1 :
  With(FilterBlock(timeData, 1, s1.filters, 0), LAMBDA block :
  With(JsDivide(block.sumSquares, Len(timeData)), LAMBDA blockMeanSquare :
  With(CircularPush(s1.momentaryBuffer, blockMeanSquare, MomentaryLen),
       LAMBDA momentaryBuffer :
  With(GuardedLoudness(JsMean(momentaryBuffer)), LAMBDA momentaryLufs :
  With(CircularPush(s1.shortTermBuffer, blockMeanSquare, ShortTermLen),
       LAMBDA shortTermBuffer :
  With(GuardedLoudness(JsMean(shortTermBuffer)), LAMBDA shortTermLufs :
  With(IF LevelGreater(momentaryLufs, -7000)
         THEN Append(s1.integratedBlocks, blockMeanSquare)
         ELSE s1.integratedBlocks,
       LAMBDA integratedBlocks :
  With(IntegratedLufs(integratedBlocks, s1.integratedLufs),
       LAMBDA integratedLufs :
    [state |-> [s1 EXCEPT !.filters = block.filters,
                          !.momentaryBuffer = momentaryBuffer,
                          !.shortTermBuffer = shortTermBuffer,
                          !.integratedBlocks = integratedBlocks,
                          !.integratedLufs = integratedLufs],
     out |-> [momentary |-> FiniteOrNegInf(momentaryLufs),
              shortTerm |-> FiniteOrNegInf(shortTermLufs),
              integrated |-> FiniteOrNegInf(integratedLufs),
              lra |-> LoudnessRange(shortTermBuffer)]])))))))))

----------------------------------------------------------------------------
\* ChromagramModule.  A chroma vector and a key profile are functions on the
\* pitch classes 0..11; profile values are in 1/100, normalised chroma values
\* in 1/100 of the largest one, correlations in 1/1000.

NOTE_NAMES ==
  [pc \in 0..11 |->
     <<"C", "C#", "D", "D#", "E", "F", "F#", "G", "G#", "A", "A#", "B">>[pc + 1]]

MAJOR_PROFILE ==
  [pc \in 0..11 |->
     <<635, 223, 348, 233, 438, 409, 252, 519, 239, 366, 229, 288>>[pc + 1]]

MINOR_PROFILE ==
  [pc \in 0..11 |->
     <<633, 268, 352, 538, 260, 353, 254, 475, 398, 269, 334, 317>>[pc + 1]]

\* the largest k of lo..hi with k * k <= v, for lo * lo <= v
RECURSIVE SqrtSearch(_, _, _)
SqrtSearch(v, lo, hi) ==
  IF lo >= hi THEN lo
  ELSE With((lo + hi + 1) \div 2, LAMBDA mid :
         IF mid * mid <= v THEN SqrtSearch(v, mid, hi)
         ELSE SqrtSearch(v, lo, mid - 1))

\* Math.sqrt(v), rounded down, for 0 <= v < 2^30
Sqrt(v) == SqrtSearch(v, 0, 32767)

\* correlate(a, b) for two 12-element arrays
Correlate(a, b) ==
  With(SumOver(a, 0..11) \div 12, LAMBDA ma :
  With(SumOver(b, 0..11) \div 12, LAMBDA mb :
  With(SumOver([i \in 0..11 |-> (a[i] - ma) * (b[i] - mb)], 0..11),
       LAMBDA num :
  With(Sqrt(SumOver([i \in 0..11 |-> (a[i] - ma) * (a[i] - ma)], 0..11))
         * Sqrt(SumOver([i \in 0..11 |-> (b[i] - mb) * (b[i] - mb)], 0..11)),
       LAMBDA denom :
    IF denom = 0 THEN 0 ELSE DivT(num * 1000, denom)))))

\* chroma[i] /= maxEnergy, when the largest energy is positive
Normalize(chroma) ==
  With(MaxSeq([i \in 1..12 |-> chroma[i - 1]]), LAMBDA maxEnergy :
    IF maxEnergy > 0
      THEN [pc \in 0..11 |-> (chroma[pc] * 100) \div maxEnergy]
      ELSE chroma)

\* [...chroma.slice(root), ...chroma.slice(0, root)]
Rotated(chroma, root) == [i \in 0..11 |-> chroma[(i + root) % 12]]

\* the key search as it would be if the chroma were rotated the other way
RECURSIVE KeySearchReversed(_, _, _)
KeySearchReversed(chroma, root, best) ==
  IF root > 11 THEN best
  ELSE With(Correlate(Rotated(chroma, 12 - root), MAJOR_PROFILE),
            LAMBDA majorCorr :
       With(Correlate(Rotated(chroma, 12 - root), MINOR_PROFILE),
            LAMBDA minorCorr :
       With(IF best.corr = NegInf \/ majorCorr > best.corr
              THEN [key |-> root, mode |-> "major", corr |-> majorCorr]
              ELSE best,
            LAMBDA afterMajor :
         KeySearchReversed(chroma, root + 1,
                   IF minorCorr > afterMajor.corr
                     THEN [key |-> root, mode |-> "minor", corr |-> minorCorr]
                     ELSE afterMajor))))

\* the key search from root on, best being the best candidate so far
RECURSIVE KeySearch(_, _, _)
KeySearch(chroma, root, best) ==
  IF root > 11 THEN best
  ELSE With(Correlate(Rotated(chroma, root), MAJOR_PROFILE), LAMBDA majorCorr :
       With(Correlate(Rotated(chroma, root), MINOR_PROFILE), LAMBDA minorCorr :
       With(IF best.corr = NegInf \/ majorCorr > best.corr
              THEN [key |-> root, mode |-> "major", corr |-> majorCorr]
              ELSE best,
            LAMBDA afterMajor :
         KeySearch(chroma, root + 1,
                   IF minorCorr > afterMajor.corr
                     THEN [key |-> root, mode |-> "minor", corr |-> minorCorr]
                     ELSE afterMajor))))

\* ChromagramModule.process from the pitch-class energies that its loop over
\* the bins has accumulated
ChromagramProcess(energies) ==
  With(Normalize(energies), LAMBDA chroma :
  With(KeySearch(chroma, 0, [key |-> 0, mode |-> "major", corr |-> NegInf]),
       LAMBDA best :
    [chroma |-> chroma,
     key |-> NOTE_NAMES[best.key],
     mode |-> best.mode,
     confidence |-> Clamp(best.corr, 0, 1000)]))

----------------------------------------------------------------------------
\* DynamicsModule, Rt60Module and StandingWaveModule: the analyzers that keep
\* the long histories.  Levels are in cdB, times in ms.

RmsHistoryLen == 300

Rt60SamplesLen == 500

SwHistoryLen == 30

\* if (!obj.f) obj.f = [], for a field that holds an array (an empty array
\* is truthy)
DefaultArray(obj, f) == IF f \in DOMAIN obj THEN obj ELSE Put(obj, f, <<>>)

\* mean(levels) for a non-empty array of levels that are finite or -Infinity
LevelMean(levels) ==
  IF \E i \in 1..Len(levels) : levels[i] = NegInf THEN NegInf
  ELSE DivT(SumRange(levels, 1, Len(levels)), Len(levels))

\* sumSquares over the samples of a frame
SumSquares(timeData) ==
  SumRange([i \in 1..Len(timeData) |-> timeData[i] * timeData[i]],
           1, Len(timeData))

\* Math.sqrt(sumSquares / timeData.length), rounded up to the amplitude grid
Rms(timeData) ==
  With(SumSquares(timeData) \div Len(timeData), LAMBDA ms :
  With(Sqrt(ms), LAMBDA root :
    IF root * root = ms /\ ms * Len(timeData) = SumSquares(timeData)
      THEN root ELSE root + 1))

\* Math.abs(x) of a level
JsAbs(x) == IF x = JsNaN THEN JsNaN ELSE IF x = NegInf THEN PosInf ELSE Abs(x)

\* DynamicsModule.process(timeData, state); compressionAmount in 1/1000
DynamicsProcess(timeData, state) ==
  With(DefaultArray(DefaultArray(state, "rmsHistory"), "peakHistory"),
       LAMBDA s1 :
  With(Rms(timeData), LAMBDA rms :
  With(LinToDb(rms), LAMBDA rmsDb :
  With(LinToDb(MaxAbs(timeData)), LAMBDA peakDb :
  With(IF rms > 0 THEN peakDb - rmsDb ELSE 0, LAMBDA crestFactor :
  With(CircularPush(s1.rmsHistory, rmsDb, RmsHistoryLen), LAMBDA rmsHistory :
  With(CircularPush(s1.peakHistory, peakDb, RmsHistoryLen),
       LAMBDA peakHistory :
  With(IF Len(rmsHistory) > 10
         THEN JsSubtract(LevelMean(peakHistory), LevelMean(rmsHistory))
         ELSE 0,
       LAMBDA drScore :
    [state |-> [s1 EXCEPT !.rmsHistory = rmsHistory,
                          !.peakHistory = peakHistory],
     out |-> [rmsDb |-> rmsDb,
              peakDb |-> peakDb,
              crestFactor |-> Abs(crestFactor),
              dynamicRange |-> JsAbs(drScore),
              compressionAmount |->
                IF drScore = JsNaN THEN JsNaN
                ELSE Clamp(1000 - JsAbs(drScore) \div 2, 0, 1000)]]))))))))

\* arr.slice(from, to) for negative from and to, counted from the end
SliceEnd(arr, from, to) ==
  SubSeq(arr, Max(Len(arr) + from, 0) + 1, Len(arr) + to)

\* process as it would be if it accepted a decay from any older level
Rt60ProcessAnyLevel(timeData, state, now) ==
  With(IF "rt60Samples" \notin DOMAIN state
         THEN Assign(state, [rt60Samples |-> <<>>,
                             isDecaying |-> FALSE,
                             decayStart |-> 0,
                             rt60 |-> JsNull])
         ELSE state,
       LAMBDA s1 :
  With(LinToDb(Rms(timeData)), LAMBDA rmsDb :
  With(With(Append(s1.rt60Samples, [db |-> rmsDb, time |-> now]),
            LAMBDA pushed :
              IF Len(pushed) > Rt60SamplesLen THEN Tail(pushed) ELSE pushed),
       LAMBDA rt60Samples :
  With(IF Len(rt60Samples) > 50
         THEN With(SliceEnd(rt60Samples, -50, -40), LAMBDA older :
              With(LevelMean([i \in 1..10 |->
                                rt60Samples[Len(rt60Samples) - 10 + i].db]),
                   LAMBDA recentMean :
              With(LevelMean([i \in 1..Len(older) |-> older[i].db]),
                   LAMBDA olderMean :
                IF /\ ~s1.isDecaying
                   /\ olderMean # NegInf
                   /\ recentMean < olderMean - 1500
                  THEN Assign(s1, [isDecaying |-> TRUE,
                                   decayStart |-> olderMean,
                                   decayStartTime |-> older[1].time])
                  ELSE s1)))
         ELSE s1,
       LAMBDA s2 :
  With(IF /\ Len(rt60Samples) > 50
          /\ s2.isDecaying
          /\ rmsDb < s2.decayStart - 6000
         THEN Assign(s2, [rt60 |-> now - s2.decayStartTime,
                          isDecaying |-> FALSE])
         ELSE s2,
       LAMBDA s3 :
    [state |-> Put(s3, "rt60Samples", rt60Samples),
     out |-> [rt60 |-> s3.rt60,
              rt60String |-> IF s3.rt60 = JsNull \/ s3.rt60 = 0
                               THEN [text |-> "Measuring..."]
                               ELSE [hundredths |-> RoundDiv(s3.rt60, 10)],
              isDecaying |-> s3.isDecaying,
              currentRmsDb |-> rmsDb]])))))

\* Rt60Module.process(timeData, sampleRate, state) at Date.now() = now;
\* rt60 is in ms
Rt60Process(timeData, state, now) ==
  With(IF "rt60Samples" \notin DOMAIN state
         THEN Assign(state, [rt60Samples |-> <<>>,
                             isDecaying |-> FALSE,
                             decayStart |-> 0,
                             rt60 |-> JsNull])
         ELSE state,
       LAMBDA s1 :
  With(LinToDb(Rms(timeData)), LAMBDA rmsDb :
  With(With(Append(s1.rt60Samples, [db |-> rmsDb, time |-> now]),
            LAMBDA pushed :
              IF Len(pushed) > Rt60SamplesLen THEN Tail(pushed) ELSE pushed),
       LAMBDA rt60Samples :
  With(IF Len(rt60Samples) > 50
         THEN With(SliceEnd(rt60Samples, -50, -40), LAMBDA older :
              With(LevelMean([i \in 1..10 |->
                                rt60Samples[Len(rt60Samples) - 10 + i].db]),
                   LAMBDA recentMean :
              With(LevelMean([i \in 1..Len(older) |-> older[i].db]),
                   LAMBDA olderMean :
                IF /\ ~s1.isDecaying
                   /\ olderMean > -2000
                   /\ recentMean < olderMean - 1500
                  THEN Assign(s1, [isDecaying |-> TRUE,
                                   decayStart |-> olderMean,
                                   decayStartTime |-> older[1].time])
                  ELSE s1)))
         ELSE s1,
       LAMBDA s2 :
  With(IF /\ Len(rt60Samples) > 50
          /\ s2.isDecaying
          /\ rmsDb < s2.decayStart - 6000
         THEN Assign(s2, [rt60 |-> now - s2.decayStartTime,
                          isDecaying |-> FALSE])
         ELSE s2,
       LAMBDA s3 :
    [state |-> Put(s3, "rt60Samples", rt60Samples),
     out |-> [rt60 |-> s3.rt60,
              rt60String |-> IF s3.rt60 = JsNull \/ s3.rt60 = 0
                               THEN [text |-> "Measuring..."]
                               ELSE [hundredths |-> RoundDiv(s3.rt60, 10)],
              isDecaying |-> s3.isDecaying,
              currentRmsDb |-> rmsDb]])))))

\* Math.floor(20 / binHz) and Math.ceil(300 / binHz)
SnapshotLow == (20 * 32) \div BinHz32

SnapshotHigh == (300 * 32 + BinHz32 - 1) \div BinHz32

\* the snapshot of a frame: the level of each bin of the band; the bin at
\* index k is bin SnapshotLow + k - 1, at (SnapshotLow + k - 1) * binHz
Snapshot(freqData) ==
  [k \in 1..(SnapshotHigh - SnapshotLow + 1) |->
     Level(freqData, SnapshotLow + k - 1)]

\* StandingWaveModule.process(freqData, sampleRate, fftSize, state).  The
\* keys Math.round(freq) of the bins differ, so avgData has an entry for each
\* bin of the band, in rising order; with n frames in the history and sum[k]
\* the summed levels of bin k, "d.db > overallMean + 8" reads
\* sum[k] / n > total / (n * bins) + 8.
StandingWaveProcess(freqData, state) ==
  With(DefaultArray(state, "swHistory"), LAMBDA s1 :
  With(CircularPush(s1.swHistory, Snapshot(freqData), SwHistoryLen),
       LAMBDA swHistory :
  With(Put(s1, "swHistory", swHistory), LAMBDA s2 :
    IF Len(swHistory) < 10
      THEN [state |-> s2, out |-> [modes |-> <<>>, detected |-> FALSE]]
      ELSE
  With(Len(swHistory), LAMBDA n :
  With(SnapshotHigh - SnapshotLow + 1, LAMBDA bins :
  With([k \in 1..bins |->
          SumRange([j \in 1..n |-> swHistory[j][k]], 1, n)],
       LAMBDA sum :
  With(SumRange(sum, 1, bins), LAMBDA total :
  With(SelectSeq([k \in 1..bins |-> k],
                 LAMBDA k : bins * sum[k] > total + 8 * bins * n),
       LAMBDA resonant :
  With(SortSeq(resonant,
               LAMBDA a, b : sum[a] > sum[b] \/ (sum[a] = sum[b] /\ a < b)),
       LAMBDA sorted :
  With([i \in 1..(IF Len(sorted) < 5 THEN Len(sorted) ELSE 5) |->
          [freq |-> RoundDiv((SnapshotLow + sorted[i] - 1) * BinHz32, 32),
           db |-> DivT(sum[sorted[i]], n)]],
       LAMBDA modes :
    [state |-> s2,
     out |-> [modes |-> modes,
              detected |-> Len(modes) > 0,
              worstMode |-> IF Len(modes) > 0 THEN modes[1]
                            ELSE JsNull]]))))))))))

----------------------------------------------------------------------------
\* MfccModule

NumFilters == 26

\* _melFilterbank: null
NoFilterbank == <<>>

\* melToHz(melMin + i * (melMax - melMin) / (numFilters + 1)) for
\* i = 0..numFilters + 1, fMin = 20 and fMax = 8000, in 1/10 Hz
MelPoints ==
  <<200, 896, 1660, 2497, 3415, 4422, 5526, 6737, 8065, 9522, 11119, 12871,
    14792, 16899, 19210, 21744, 24523, 27571, 30913, 34579, 38599, 43007,
    47842, 53144, 58959, 65336, 72330, 80000>>

\* _buildMelFilterbank(sampleRate, fftSize): the filters are determined by
\* their length numBins and by binPoints
BuildMelFilterbank(sampleRate, fftSize) ==
  [numBins |-> fftSize \div 2,
   binPoints |-> [i \in 1..(NumFilters + 2) |->
                    ((fftSize + 1) * MelPoints[i]) \div (sampleRate * 10)]]

\* MfccModule.process(freqData, sampleRate, fftSize) on a freqData of the
\* given length, with this._melFilterbank = cached: a filter shorter than
\* freqData reads undefined beyond its end, which makes every mel energy and
\* every coefficient NaN; the coefficients are modelled by that alone
MfccProcess(length, sampleRate, fftSize, cached) ==
  LET bank == IF cached = NoFilterbank
                THEN BuildMelFilterbank(sampleRate, fftSize) ELSE cached
  IN  [melFilterbank |-> bank,
       out |-> [mfcc |-> [isNaN |-> length > bank.numBins],
                numCoeffs |-> 13]]

----------------------------------------------------------------------------
\* The engine object

\* the modules processFrame gives an entry of this._moduleStates
StatefulModules ==
  {"clipping", "dynamics", "truePeak", "lufs", "onset", "snr", "feedback",
   "rt60", "standingWaves"}

\* the output of an analyzer whose numeric content the model leaves out
NotModelled == [notModelled |-> TRUE]

NoResult == EmptyObject

\* the state object processFrame hands to a module:
\* if (!st.m) st.m = {}
StateOf(st, m) == IF m \in DOMAIN st THEN st[m] ELSE EmptyObject

\* buffers that can still be reached: the engine's and those of the result a
\* consumer was handed last
LiveAddrs(tRef, fRef, res) ==
  ({tRef, fRef}
     \cup (IF "raw" \in DOMAIN res
             THEN {res.raw.timeData, res.raw.freqData} ELSE {})) \ {0}

Collect(h, live) == [a \in DOMAIN h \cap live |-> h[a]]

\* a || b for a numeric option: b when the option is undefined or 0
OrElse(obj, f, b) == IF Falsy(obj, f) THEN b ELSE obj[f]

\* this.options as the constructor builds it from its argument
ConstructorOptions(opts) ==
  [fftSize |-> OrElse(opts, "fftSize", FftSize),
   smoothingTimeConstant |->
     OrElse(opts, "smoothingTimeConstant", DefaultSmoothing),
   minDecibels |-> OrElse(opts, "minDecibels", MinDecibels),
   maxDecibels |-> OrElse(opts, "maxDecibels", MaxDecibels),
   sampleRate |-> OrElse(opts, "sampleRate", JsNull)]

\* the analyser as init() sets it up from this.options
CreateAnalyser(opts) ==
  [fftSize |-> opts.fftSize,
   smoothingTimeConstant |-> opts.smoothingTimeConstant,
   minDecibels |-> opts.minDecibels,
   maxDecibels |-> opts.maxDecibels]

\* the state of new OrdoAudio(opts).use(...modules)
ConstructedFrom(opts, modules) ==
  /\ callerOptions = opts
  /\ options = ConstructorOptions(opts)
  /\ analyserSettings = EmptyObject
  /\ activeModules = modules
  /\ moduleStates = EmptyObject
  /\ listeners = EmptyObject
  /\ isRunning = FALSE
  /\ animFrameId = 0
  /\ rafPending = {}
  /\ frameCount = 0
  /\ audioContext = "null"
  /\ analyser = FALSE
  /\ timeDataRef = 0
  /\ freqDataRef = 0
  /\ heap = EmptyObject
  /\ result = NoResult
  /\ emitted = <<>>
  /\ initPending = 0
  /\ closePending = 0
  /\ clock = 0
  /\ melFilterbank = NoFilterbank

\* the state of new OrdoAudio().use(...modules)
Constructed(modules) == ConstructedFrom(EmptyObject, modules)

\* use(...modules)
Use(modules) ==
  /\ UNCHANGED melFilterbank
  /\ activeModules' = modules
  /\ emitted' = <<>>
  /\ UNCHANGED <<moduleStates, listeners, isRunning, animFrameId, rafPending,
                 frameCount, audioContext, analyser,
                 analyserSettings, options, callerOptions, timeDataRef, freqDataRef,
                 heap, result, initPending, closePending, clock>>

\* enable as it would be if it added the argument array instead of its elements
EnableArray(modules) ==
  /\ UNCHANGED melFilterbank
  /\ activeModules' = activeModules \cup {"[object Array]"}
  /\ emitted' = <<>>
  /\ UNCHANGED <<moduleStates, listeners, isRunning, animFrameId, rafPending,
                 frameCount, audioContext, analyser,
                 analyserSettings, options, callerOptions, timeDataRef, freqDataRef,
                 heap, result, initPending, closePending, clock>>

\* enable(...modules)
Enable(modules) ==
  /\ UNCHANGED melFilterbank
  /\ activeModules' = activeModules \cup modules
  /\ emitted' = <<>>
  /\ UNCHANGED <<moduleStates, listeners, isRunning, animFrameId, rafPending,
                 frameCount, audioContext, analyser,
                 analyserSettings, options, callerOptions, timeDataRef, freqDataRef,
                 heap, result, initPending, closePending, clock>>

\* disable as it would be if it also dropped the state of the modules
DisableClearing(modules) ==
  /\ UNCHANGED melFilterbank
  /\ activeModules' = activeModules \ modules
  /\ moduleStates' = [m \in DOMAIN moduleStates \ modules |-> moduleStates[m]]
  /\ emitted' = <<>>
  /\ UNCHANGED <<listeners, isRunning, animFrameId, rafPending,
                 frameCount, audioContext, analyser,
                 analyserSettings, options, callerOptions, timeDataRef, freqDataRef,
                 heap, result, initPending, closePending, clock>>

\* disable(...modules)
Disable(modules) ==
  /\ UNCHANGED melFilterbank
  /\ activeModules' = activeModules \ modules
  /\ emitted' = <<>>
  /\ UNCHANGED <<moduleStates, listeners, isRunning, animFrameId, rafPending,
                 frameCount, audioContext, analyser,
                 analyserSettings, options, callerOptions, timeDataRef, freqDataRef,
                 heap, result, initPending, closePending, clock>>

\* on(event, callback)
On(event, callback) ==
  /\ UNCHANGED melFilterbank
  /\ listeners' = Put(listeners, event,
                      Append(IF event \in DOMAIN listeners
                               THEN listeners[event] ELSE <<>>, callback))
  /\ emitted' = <<>>
  /\ UNCHANGED <<activeModules, moduleStates, isRunning, animFrameId,
                 rafPending, frameCount, audioContext, analyser,
                 analyserSettings, options, callerOptions, timeDataRef,
                 freqDataRef, heap, result, initPending, closePending, clock>>

\* the special events processFrame emits for the result it assembled
EventsOfNewlyTrue(res) ==
  LET was(m, flag) == m \in DOMAIN result /\ result[m][flag]
  IN  (IF "clipping" \in DOMAIN res /\ res.clipping.isClipping
            /\ ~was("clipping", "isClipping")
         THEN << <<"clip", res.clipping>> >> ELSE <<>>)
      \o (IF "onset" \in DOMAIN res /\ res.onset.isOnset
               /\ ~was("onset", "isOnset")
            THEN << <<"onset", res.onset>> >> ELSE <<>>)
      \o (IF "feedback" \in DOMAIN res /\ res.feedback.isFeedbackRisk
               /\ ~was("feedback", "isFeedbackRisk")
            THEN << <<"feedback", res.feedback>> >> ELSE <<>>)

\* the this._emit('clip' | 'onset' | 'feedback', ...) calls of processFrame,
\* in the order it makes them; result.m is set exactly when m is active
EventsOf(res) ==
  (IF "clipping" \in DOMAIN res /\ res.clipping.isClipping
     THEN << <<"clip", res.clipping>> >> ELSE <<>>)
  \o (IF "onset" \in DOMAIN res /\ res.onset.isOnset
        THEN << <<"onset", res.onset>> >> ELSE <<>>)
  \o (IF "feedback" \in DOMAIN res /\ res.feedback.isFeedbackRisk
        THEN << <<"feedback", res.feedback>> >> ELSE <<>>)

----------------------------------------------------------------------------
\* processFrame() on a frame the analyser delivers at Date.now() = now:
\* frame.timeData, frame.freqData and frame.yin (see PitchProcess)

FrameEffect(frame, now) ==
  LET td == frame.timeData
      fd == frame.freqData
      st == moduleStates
      has(m) == m \in activeModules
      clip == ClippingProcess(td, StateOf(st, "clipping"))
      tp == TruePeakProcess(td, StateOf(st, "truePeak"))
      dyn == DynamicsProcess(td, StateOf(st, "dynamics"))
      lufs == LufsProcess(td, StateOf(st, "lufs"))
      pitch == PitchProcess(frame.yin)
      onset == OnsetProcess(fd, StateOf(st, "onset"), now)
      snr == SnrProcess(fd, StateOf(st, "snr"))
      fb == FeedbackProcess(fd, StateOf(st, "feedback"))
      rt60 == Rt60Process(td, StateOf(st, "rt60"), now)
      sw == StandingWaveProcess(fd, StateOf(st, "standingWaves"))
      mfcc == MfccProcess(analyserSettings.fftSize \div 2, SampleRate,
                          options.fftSize, melFilterbank)
      \* has('thd') && result.pitch, has('inharmonicity') && result.pitch
      present == {m \in activeModules \cap Catalog :
                    m \in {"thd", "inharmonicity"} => has("pitch")}
      base == [frame |-> frameCount + 1,
               timestamp |-> now,
               sampleRate |-> SampleRate,
               fftSize |-> options.fftSize,
               raw |-> [timeData |-> timeDataRef, freqData |-> freqDataRef]]
      res == [f \in DOMAIN base \cup present |->
                CASE f \in DOMAIN base -> base[f]
                  [] f = "clipping" -> clip.out
                  [] f = "dynamics" -> dyn.out
                  [] f = "dcOffset" -> DcOffsetProcess(td)
                  [] f = "zcr" -> ZcrProcess(td)
                  [] f = "truePeak" -> tp.out
                  [] f = "lufs" -> lufs.out
                  [] f = "pitch" -> pitch
                  [] f = "chroma" -> ChromagramProcess(frame.chroma)
                  [] f = "onset" -> onset.out
                  [] f = "thd" -> ThdProcess(fd, pitch.frequency)
                  [] f = "snr" -> snr.out
                  [] f = "feedback" -> fb.out
                  [] f = "phase" -> PhaseProcess
                  [] f = "inharmonicity" ->
                       InharmonicityProcess(fd, pitch.frequency)
                  [] f = "rt60" -> rt60.out
                  [] f = "standingWaves" -> sw.out
                  [] f = "mfcc" -> mfcc.out
                  [] OTHER -> NotModelled]
      states == [m \in DOMAIN st \cup (activeModules \cap StatefulModules) |->
                   CASE ~has(m) -> st[m]
                     [] m = "clipping" -> clip.state
                     [] m = "dynamics" -> dyn.state
                     [] m = "truePeak" -> tp.state
                     [] m = "lufs" -> lufs.state
                     [] m = "onset" -> onset.state
                     [] m = "snr" -> snr.state
                     [] m = "feedback" -> fb.state
                     [] m = "rt60" -> rt60.state
                     [] m = "standingWaves" -> sw.state
                     [] OTHER -> StateOf(st, m)]
  IN  [moduleStates |-> states,
       result |-> res,
       melFilterbank |-> IF has("mfcc") THEN mfcc.melFilterbank
                         ELSE melFilterbank,
       events |-> EventsOf(res),
       heap |-> Collect([a \in DOMAIN heap |->
                           IF a = timeDataRef THEN td
                           ELSE IF a = freqDataRef THEN fd ELSE heap[a]],
                        LiveAddrs(timeDataRef, freqDataRef, result))]

\* a call of processFrame(): null without an analyser, a TypeError from
\* getFloatTimeDomainData(null) before the buffers are allocated
ProcessFrame(frame, now) ==
  /\ now >= clock
  /\ clock' = now
  /\ IF analyser /\ timeDataRef # 0
       THEN With(FrameEffect(frame, now), LAMBDA effect :
              /\ emitted' = effect.events
              /\ moduleStates' = effect.moduleStates
              /\ result' = effect.result
              /\ heap' = effect.heap
              /\ melFilterbank' = effect.melFilterbank
              /\ frameCount' = frameCount + 1)
       ELSE /\ emitted' = <<>>
            /\ UNCHANGED <<moduleStates, result, heap, frameCount,
                           melFilterbank>>
  /\ UNCHANGED <<activeModules, listeners, isRunning, animFrameId, rafPending,
                 audioContext, analyser,
                 analyserSettings, options, callerOptions, timeDataRef, freqDataRef,
                 initPending, closePending>>

----------------------------------------------------------------------------
\* init(source), start(), stop(), destroy()

\* the two lowest addresses that hold no reachable buffer
FreshAddrs ==
  LET free == (1..4) \ LiveAddrs(0, 0, result)
      a == CHOOSE x \in free : \A y \in free : x <= y
      b == CHOOSE x \in free \ {a} : \A y \in free \ {a} : x <= y
  IN  <<a, b>>

\* the end of init(): the buffers are allocated and 'ready' is emitted
FinishInit ==
  /\ timeDataRef' = FreshAddrs[1]
  /\ freqDataRef' = FreshAddrs[2]
  /\ heap' = [a \in LiveAddrs(FreshAddrs[1], FreshAddrs[2], result) |->
                IF a = FreshAddrs[1] THEN [i \in 1..FrameLen |-> 0]
                ELSE IF a = FreshAddrs[2] THEN [b \in ModelBins |-> 0]
                ELSE heap[a]]
  /\ emitted' = << <<"ready", activeModules>> >>

\* init(stream) with a MediaStream: runs to its end without suspending
InitStream ==
  /\ UNCHANGED melFilterbank
  /\ audioContext' = "running"
  /\ analyser' = TRUE
  /\ analyserSettings' = CreateAnalyser(options)
  /\ UNCHANGED <<options, callerOptions>>
  /\ FinishInit
  /\ UNCHANGED <<activeModules, moduleStates, listeners, isRunning,
                 animFrameId, rafPending, frameCount, result, initPending,
                 closePending, clock>>

\* init('microphone') up to await getUserMedia(...)
InitBegin ==
  /\ UNCHANGED melFilterbank
  /\ audioContext' = "running"
  /\ analyser' = TRUE
  /\ analyserSettings' = CreateAnalyser(options)
  /\ UNCHANGED <<options, callerOptions>>
  /\ initPending' = initPending + 1
  /\ emitted' = <<>>
  /\ UNCHANGED <<activeModules, moduleStates, listeners, isRunning,
                 animFrameId, rafPending, frameCount, timeDataRef,
                 freqDataRef, heap, result, closePending, clock>>

\* init('microphone') after getUserMedia resolved
InitResume ==
  /\ UNCHANGED melFilterbank
  /\ initPending > 0
  /\ initPending' = initPending - 1
  /\ FinishInit
  /\ UNCHANGED <<activeModules, moduleStates, listeners, isRunning,
                 animFrameId, rafPending, frameCount, audioContext, analyser,
                 analyserSettings, options, callerOptions,
                 result, closePending, clock>>

\* init('microphone') after getUserMedia rejected: 'error' is emitted
InitReject ==
  /\ UNCHANGED melFilterbank
  /\ initPending > 0
  /\ initPending' = initPending - 1
  /\ emitted' = << <<"error", "getUserMedia">> >>
  /\ UNCHANGED <<activeModules, moduleStates, listeners, isRunning,
                 animFrameId, rafPending, frameCount, audioContext, analyser,
                 analyserSettings, options, callerOptions,
                 timeDataRef, freqDataRef, heap, result, closePending, clock>>

\* the id requestAnimationFrame returns: one that names no pending callback
NewRafId(pending, current) ==
  CHOOSE x \in 1..(Cardinality(pending) + 2) :
    /\ x \notin pending \cup {current}
    /\ \A y \in 1..(Cardinality(pending) + 2) :
         y \notin pending \cup {current} => x <= y

\* start()
Start ==
  /\ UNCHANGED melFilterbank
  /\ emitted' = <<>>
  /\ IF isRunning
       THEN UNCHANGED <<isRunning, animFrameId, rafPending>>
       ELSE /\ isRunning' = TRUE
            /\ animFrameId' = NewRafId(rafPending, animFrameId)
            /\ rafPending' = rafPending \cup {NewRafId(rafPending, animFrameId)}
  /\ UNCHANGED <<activeModules, moduleStates, listeners, frameCount,
                 audioContext, analyser,
                 analyserSettings, options, callerOptions, timeDataRef, freqDataRef, heap,
                 result, initPending, closePending, clock>>

\* stop()
Stop ==
  /\ UNCHANGED melFilterbank
  /\ emitted' = <<>>
  /\ isRunning' = FALSE
  /\ animFrameId' = 0
  /\ rafPending' = rafPending \ {animFrameId}
  /\ UNCHANGED <<activeModules, moduleStates, listeners, frameCount,
                 audioContext, analyser,
                 analyserSettings, options, callerOptions, timeDataRef, freqDataRef, heap,
                 result, initPending, closePending, clock>>

\* the animation-frame callback id runs the loop body
LoopTick(id, frame, now) ==
  /\ id \in rafPending
  /\ now >= clock
  /\ clock' = now
  /\ IF ~isRunning
       THEN \* if (!this._isRunning) return
            /\ rafPending' = rafPending \ {id}
            /\ emitted' = <<>>
            /\ UNCHANGED <<moduleStates, result, heap, frameCount,
                           animFrameId, melFilterbank>>
       ELSE IF analyser /\ timeDataRef = 0
         THEN \* processFrame throws: the callback ends without rescheduling
              /\ rafPending' = rafPending \ {id}
              /\ emitted' = <<>>
              /\ UNCHANGED <<moduleStates, result, heap, frameCount,
                             animFrameId, melFilterbank>>
         ELSE /\ IF analyser
                   THEN /\ moduleStates' = FrameEffect(frame, now).moduleStates
                        /\ result' = FrameEffect(frame, now).result
                        /\ heap' = FrameEffect(frame, now).heap
                        /\ melFilterbank' =
                             FrameEffect(frame, now).melFilterbank
                        /\ frameCount' = frameCount + 1
                        /\ emitted' =
                             FrameEffect(frame, now).events
                               \o << <<"frame", frameCount + 1>> >>
                   ELSE /\ emitted' = <<>>
                        /\ UNCHANGED <<moduleStates, result, heap, frameCount,
                                       melFilterbank>>
              /\ animFrameId' = NewRafId(rafPending \ {id}, animFrameId)
              /\ rafPending' =
                   (rafPending \ {id})
                     \cup {NewRafId(rafPending \ {id}, animFrameId)}
  /\ UNCHANGED <<activeModules, listeners, isRunning, audioContext, analyser,
                 analyserSettings, options, callerOptions,
                 timeDataRef, freqDataRef, initPending, closePending>>

\* destroy() up to await this.audioContext.close(); without a context it runs
\* to its end, and close() of a closed context rejects
DestroyBegin ==
  /\ UNCHANGED melFilterbank
  /\ emitted' = <<>>
  /\ isRunning' = FALSE
  /\ animFrameId' = 0
  /\ rafPending' = rafPending \ {animFrameId}
  /\ IF audioContext = "null"
       THEN listeners' = EmptyObject /\ UNCHANGED <<audioContext, closePending>>
       ELSE IF audioContext = "closed"
         THEN UNCHANGED <<listeners, audioContext, closePending>>
         ELSE /\ audioContext' = "closed"
              /\ closePending' = closePending + 1
              /\ UNCHANGED listeners
  /\ UNCHANGED <<activeModules, moduleStates, frameCount, analyser,
                 analyserSettings, options, callerOptions,
                 timeDataRef, freqDataRef, heap, result, initPending, clock>>

\* destroy() after close() resolved: this._listeners = {}
DestroyResume ==
  /\ UNCHANGED melFilterbank
  /\ closePending > 0
  /\ closePending' = closePending - 1
  /\ listeners' = EmptyObject
  /\ emitted' = <<>>
  /\ UNCHANGED <<activeModules, moduleStates, isRunning, animFrameId,
                 rafPending, frameCount, audioContext, analyser,
                 analyserSettings, options, callerOptions, timeDataRef,
                 freqDataRef, heap, result, initPending, clock>>

----------------------------------------------------------------------------
\* Inputs

Samples == {-FullScale, 0, FullScale \div 2, (9 * FullScale) \div 10, FullScale}

TimeFrames == [1..FrameLen -> Samples]

\* a frame that holds one sample of the given amplitude and is silent after it
Burst(amplitude) == [i \in 1..FrameLen |-> IF i = 1 THEN amplitude ELSE 0]

DbLevels == {MinDecibels, -60, -10}

\* spectra whose low bin is at the floor
FreqFrames == {fd \in [ModelBins -> DbLevels] : fd[20] = MinDecibels}

SilentSpectrum == [b \in ModelBins |-> MinDecibels]

\* no lag found by the pitch search
NoPitch == [tauEstimate |-> -1, betterTau |-> -1, cmndf |-> 1000]

\* the state of an engine after construction, use(...modules) and a completed
\* init(stream)
ReadyEngine(modules) ==
  /\ callerOptions = EmptyObject
  /\ options = ConstructorOptions(EmptyObject)
  /\ analyserSettings = CreateAnalyser(ConstructorOptions(EmptyObject))
  /\ activeModules = modules
  /\ moduleStates = EmptyObject
  /\ listeners = EmptyObject
  /\ isRunning = FALSE
  /\ animFrameId = 0
  /\ rafPending = {}
  /\ frameCount = 0
  /\ audioContext = "running"
  /\ analyser = TRUE
  /\ timeDataRef = 1
  /\ freqDataRef = 2
  /\ heap = [a \in {1, 2} |-> IF a = 1 THEN [i \in 1..FrameLen |-> 0]
                              ELSE [b \in ModelBins |-> 0]]
  /\ result = NoResult
  /\ emitted = << <<"ready", modules>> >>
  /\ initPending = 0
  /\ closePending = 0
  /\ clock = 0
  /\ melFilterbank = NoFilterbank

----------------------------------------------------------------------------
\* SpecClip: the clipping analyzer alone, on silent, loud and full-scale
\* frames, with at most MaxClipEvents clipping frames in a run

InitClip == ReadyEngine({"clipping"})

ClipFrames == {Burst(0), Burst((9 * FullScale) \div 10), Burst(FullScale)}

ClipCountSoFar ==
  IF "clipping" \in DOMAIN moduleStates
    THEN moduleStates["clipping"].clipCount ELSE 0

NextClip ==
  \E td \in ClipFrames :
    /\ frameCount < ClipRunFrames
    /\ LinToDb(MaxAbs(td)) > ClipThresholdCdb => ClipCountSoFar < MaxClipEvents
    /\ ProcessFrame([timeData |-> td, freqData |-> SilentSpectrum,
                     yin |-> NoPitch], clock + FrameMs)

SpecClip == InitClip /\ [][NextClip]_vars

\* a frame was processed in this step
FrameStep == frameCount' = frameCount + 1

\* C3: a frame whose peak sample is exactly 1.0 reports isClipping and raises
\* totalClipEvents by exactly 1, and no frame of the hold window that follows
\* (the clip indicator is still held and the frame does not clip) changes
\* totalClipEvents.
ClipCountedOnce ==
  [][FrameStep =>
       /\ MaxAbs(heap'[timeDataRef']) = FullScale =>
            /\ result'.clipping.isClipping
            /\ result'.clipping.totalClipEvents = ClipCountSoFar + 1
       /\ (ClipCountSoFar > 0 /\ moduleStates["clipping"].clipHold > 0
             /\ ~result'.clipping.isClipping) =>
            result'.clipping.totalClipEvents = ClipCountSoFar]_vars

\* one clip at exactly full scale, then a whole hold window without clipping
ClipCountedOnceWitness ==
  /\ "clipping" \in DOMAIN result
  /\ result.clipping.totalClipEvents = 1
  /\ ~result.clipping.isClipping
  /\ moduleStates["clipping"].clipHold = 0
  /\ result.frame > ClipHoldFrames

----------------------------------------------------------------------------
\* SpecPeak: the true-peak analyzer alone, on every frame of TimeFrames

InitPeak == ReadyEngine({"truePeak"})

NextPeak ==
  \E td \in TimeFrames :
    /\ frameCount < PeakRunFrames
    /\ ProcessFrame([timeData |-> td, freqData |-> SilentSpectrum,
                     yin |-> NoPitch], clock + FrameMs)

SpecPeak == InitPeak /\ [][NextPeak]_vars

\* C2: truePeakHold never decreases from one frame to the next and equals the
\* maximum truePeak reported so far (the maximum of the previous hold and the
\* frame's truePeak; the frame's truePeak on the first frame).
TruePeakHoldMonotonic ==
  [][FrameStep =>
       LET before == IF "truePeak" \in DOMAIN result
                       THEN result.truePeak.truePeakHold ELSE NegInf
       IN  /\ result'.truePeak.truePeakHold >= before
           /\ result'.truePeak.truePeakHold =
                Max(before, result'.truePeak.truePeak)]_vars

\* C10: in every frame whose reported truePeakHold exceeds -1.0 dBTP, isOver
\* is true.
OverFollowsHold ==
  "truePeak" \in DOMAIN result =>
    (result.truePeak.truePeakHold > OverCeilingCdb => result.truePeak.isOver)

----------------------------------------------------------------------------
\* SpecSnr: the SNR analyzer alone, on every spectrum of FreqFrames

InitSnr == ReadyEngine({"snr"})

NextSnr ==
  \E fd \in FreqFrames :
    /\ frameCount < SnrRunFrames
    /\ ProcessFrame([timeData |-> Burst(0), freqData |-> fd, yin |-> NoPitch],
                    clock + FrameMs)

SpecSnr == InitSnr /\ [][NextSnr]_vars

\* C1: the first 30 frames the analyzer processes report calibrating = true
\* and snr = null, and every later frame reports calibrating = false and a
\* numeric snr.
SnrCalibrationEnds ==
  "snr" \in DOMAIN result =>
    IF result.frame <= CalibrationFrames
      THEN result.snr.calibrating /\ result.snr.snr = JsNull
      ELSE ~result.snr.calibrating /\ result.snr.snr # JsNull

----------------------------------------------------------------------------
\* SpecEvents: the three analyzers that raise special events.  The input is a
\* tone that, once it sounds, is sustained, and one run of at most
\* MaxClipEvents full-scale frames.

InitEvents == ReadyEngine({"clipping", "onset", "feedback"})

Tone == [b \in ModelBins |-> IF b = 85 THEN -10 ELSE MinDecibels]

NextEvents ==
  \E td \in {Burst(0), Burst(FullScale)}, fd \in {SilentSpectrum, Tone} :
    /\ frameCount < EventsRunFrames
    /\ heap[freqDataRef] = Tone => fd = Tone
    /\ td = Burst(FullScale) =>
         IF ClipCountSoFar = 0 THEN TRUE
         ELSE /\ ClipCountSoFar < MaxClipEvents
              /\ moduleStates["clipping"].clipHold = ClipHoldFrames
    /\ ProcessFrame([timeData |-> td, freqData |-> fd, yin |-> NoPitch],
                    clock + FrameMs)

SpecEvents == InitEvents /\ [][NextEvents]_vars

\* the names of the events the last step emitted
EmittedNames == {emitted[i][1] : i \in DOMAIN emitted}

Flagged(res, m, flag) == m \in DOMAIN res /\ res[m][flag]

\* C4 as stated: a frame emits 'clip' (resp. 'onset', 'feedback') only if the
\* module's flag is true in that frame and was not true in the previously
\* processed frame.
EventsEdgeTriggered ==
  [][FrameStep =>
       /\ "clip" \in EmittedNames' =>
            /\ Flagged(result', "clipping", "isClipping")
            /\ ~Flagged(result, "clipping", "isClipping")
       /\ "onset" \in EmittedNames' =>
            /\ Flagged(result', "onset", "isOnset")
            /\ ~Flagged(result, "onset", "isOnset")
       /\ "feedback" \in EmittedNames' =>
            /\ Flagged(result', "feedback", "isFeedbackRisk")
            /\ ~Flagged(result, "feedback", "isFeedbackRisk")]_vars

\* C4 (amended): a frame emits 'clip' (resp. 'onset', 'feedback') if and only
\* if the module's flag is true in that frame, whether or not it was true in
\* the previously processed frame: a condition that stays true over
\* consecutive frames yields one notification per frame.
EventsFollowFlags ==
  [][FrameStep =>
       /\ "clip" \in EmittedNames'
            <=> Flagged(result', "clipping", "isClipping")
       /\ "onset" \in EmittedNames' <=> Flagged(result', "onset", "isOnset")
       /\ "feedback" \in EmittedNames'
            <=> Flagged(result', "feedback", "isFeedbackRisk")]_vars

\* the second of two consecutive clipping frames, with its 'clip' event, in a
\* run where the feedback flag has also been raised and notified
EventsFollowFlagsWitness ==
  /\ Flagged(result, "clipping", "isClipping")
  /\ result.clipping.totalClipEvents = 2
  /\ moduleStates["clipping"].clipHold = ClipHoldFrames
  /\ "clip" \in EmittedNames
  /\ Flagged(result, "feedback", "isFeedbackRisk")
  /\ "feedback" \in EmittedNames

----------------------------------------------------------------------------
\* SpecModules: use, enable and disable with arguments over ModuleArgs (four
\* catalog names and one name outside the catalog), between frames

ModuleArgs == {"clipping", "pitch", "thd", "inharmonicity", "bogus"}

\* a lag of 48 samples found with CMNDF 0.05: a clear 1 kHz tone
ClearPitch == [tauEstimate |-> 48, betterTau |-> 48 * 1000, cmndf |-> 50]

InitModules == ReadyEngine({"clipping", "pitch", "thd", "inharmonicity"})

FrameModules ==
  \E td \in {Burst(0), Burst(FullScale)}, yin \in {NoPitch, ClearPitch} :
    /\ frameCount < ModulesRunFrames
    /\ ProcessFrame([timeData |-> td, freqData |-> Tone, yin |-> yin],
                    clock + FrameMs)

UseModules == \E modules \in SUBSET ModuleArgs : Use(modules)

EnableModules == \E modules \in SUBSET ModuleArgs : Enable(modules)

DisableModules == \E modules \in SUBSET ModuleArgs : Disable(modules)

NextModules == FrameModules \/ UseModules \/ EnableModules \/ DisableModules

SpecModules == InitModules /\ [][NextModules]_vars

\* C5: the result of a frame has the field of every catalog module that is
\* active when the frame is processed, whatever the other modules' activation.
ActiveModulesReported ==
  [][FrameStep =>
       \A m \in activeModules \cap Catalog : m \in DOMAIN result']_vars

\* C6: a frame processed while m is not active leaves m's entry of the
\* module-state map as it was and has no field m; use, enable and disable
\* leave the module-state map as it was; and a frame processed with clipping
\* active counts on from the stored clip count.
DisableNonDestructive ==
  [][/\ FrameStep =>
          /\ \A m \in Catalog \ activeModules :
               /\ m \notin DOMAIN result'
               /\ (m \in DOMAIN moduleStates) = (m \in DOMAIN moduleStates')
               /\ m \in DOMAIN moduleStates =>
                    moduleStates'[m] = moduleStates[m]
          /\ "clipping" \in activeModules =>
               result'.clipping.totalClipEvents =
                 ClipCountSoFar
                   + (IF result'.clipping.isClipping THEN 1 ELSE 0)
     /\ ~FrameStep => moduleStates' = moduleStates]_vars

\* clipping is disabled with one clip counted, and the frame processed last
\* was a full-scale frame that left the count and the result without it
DisableNonDestructiveWitness ==
  /\ "clipping" \notin activeModules
  /\ result # NoResult
  /\ "clipping" \notin DOMAIN result
  /\ heap[result.raw.timeData] = Burst(FullScale)
  /\ ClipCountSoFar = 1
  /\ moduleStates["clipping"].clipHold = ClipHoldFrames

Marked(out, values) == \E f \in DOMAIN out \ values : out[f] = "N/A"

\* C15: a frame whose fundamental is 0 or below 20 Hz has thd = 0 with no
\* harmonics and inharmonicity = 0 with no harmonics found, and each of the
\* two results holds a 'not applicable' marker.  Checked under SpecModules.
NoFundamentalMarked ==
  /\ ("thd" \in DOMAIN result /\ result.pitch.frequency < 20 * 32) =>
       /\ result.thd.thd = 0
       /\ result.thd.harmonics = <<>>
       /\ Marked(result.thd, {"thd", "harmonics"})
  /\ ("inharmonicity" \in DOMAIN result /\ result.pitch.frequency < 20 * 32) =>
       /\ result.inharmonicity.inharmonicity = 0
       /\ result.inharmonicity.harmonicsFound = <<>>
       /\ Marked(result.inharmonicity, {"inharmonicity", "harmonicsFound"})

----------------------------------------------------------------------------
\* the result with the buffers it refers to read from heap h
Deref(res, h) ==
  [res EXCEPT !.raw = [timeData |-> h[res.raw.timeData],
                       freqData |-> h[res.raw.freqData]]]

\* C9: a result keeps its contents, the sample and magnitude data reachable
\* through raw.timeData and raw.freqData included, when later frames are
\* processed.  Checked under SpecPeak.
ResultImmutable ==
  [][result # NoResult => Deref(result, heap') = Deref(result, heap)]_vars

----------------------------------------------------------------------------
\* SpecSession: one engine through sessions, as the application drives it:
\* init on an engine that has no open audio context, on, start, the
\* animation-frame loop, stop and destroy, with at most one getUserMedia and
\* one close outstanding

InitSession == Constructed({"clipping", "truePeak"})

ListenerCount ==
  SumOver([e \in DOMAIN listeners |-> Len(listeners[e])], DOMAIN listeners)

TickSession ==
  \E id \in rafPending, td \in {Burst(0), Burst(FullScale)} :
    /\ frameCount < SessionRunFrames
    /\ clock < SessionTicks * FrameMs
    /\ LoopTick(id, [timeData |-> td, freqData |-> SilentSpectrum,
                     yin |-> NoPitch], clock + FrameMs)

OnSession ==
  \E event \in {"frame", "error"} :
    /\ ListenerCount < MaxListeners
    /\ On(event, "callback")

NextSession ==
  \/ audioContext # "running" /\ InitStream
  \/ audioContext # "running" /\ initPending = 0 /\ InitBegin
  \/ InitResume
  \/ InitReject
  \/ OnSession
  \/ Start
  \/ Stop
  \/ TickSession
  \/ closePending = 0 /\ DestroyBegin
  \/ DestroyResume

SpecSession == InitSession /\ [][NextSession]_vars

\* the frame processed in this step is the first since init allocated the
\* buffers of a session
FirstFrameOfSession ==
  /\ FrameStep
  /\ result = NoResult \/ result.raw.timeData # timeDataRef

\* C7: the first frame of every session, the sessions after a destroy
\* included, is processed from initial module state: totalClipEvents counts
\* that frame alone and truePeakHold is that frame's truePeak.
SessionStartsFresh ==
  [][FirstFrameOfSession =>
       /\ result'.clipping.totalClipEvents =
            (IF result'.clipping.isClipping THEN 1 ELSE 0)
       /\ result'.truePeak.truePeakHold = result'.truePeak.truePeak]_vars

----------------------------------------------------------------------------
\* SpecOptions: engines constructed with the options a caller may pass
\* (none, a smoothing constant alone, or smoothing and both dB bounds), then
\* initialised, run and destroyed.

CallerOptions ==
  {EmptyObject}
    \cup {[smoothingTimeConstant |-> s] : s \in {0, 50}}
    \cup {[smoothingTimeConstant |-> s, minDecibels |-> lo, maxDecibels |-> hi] :
            s \in {0, 50}, lo \in {-90}, hi \in {-10, 0}}

InitOptions == \E opts \in CallerOptions : ConstructedFrom(opts, {"dcOffset"})

TickOptions ==
  \E id \in rafPending, td \in {Burst(0), Burst(FullScale)} :
    /\ frameCount < OptionsRunFrames
    /\ clock < OptionsTicks * FrameMs
    /\ LoopTick(id, [timeData |-> td, freqData |-> SilentSpectrum,
                     yin |-> NoPitch], clock + FrameMs)

NextOptions ==
  \/ audioContext # "running" /\ InitStream
  \/ audioContext # "running" /\ initPending = 0 /\ InitBegin
  \/ InitResume
  \/ InitReject
  \/ Start
  \/ Stop
  \/ TickOptions
  \/ closePending = 0 /\ DestroyBegin
  \/ DestroyResume

SpecOptions == InitOptions /\ [][NextOptions]_vars

\* C11: once init() has created the analyser, each of smoothingTimeConstant,
\* minDecibels and maxDecibels that the caller passed to the constructor is
\* the value held in this.options and the value set on the analyser.
OptionsHonoured ==
  analyser =>
    \A f \in DOMAIN callerOptions :
      /\ options[f] = callerOptions[f]
      /\ analyserSettings[f] = callerOptions[f]

----------------------------------------------------------------------------
\* SpecLufs: the loudness analyzer alone, from a fresh state, on frames of
\* silence, of one half-scale sample and of full-scale samples.

LufsFrames == {Burst(0), Burst(FullScale \div 2), [i \in 1..FrameLen |-> FullScale]}

InitLufs == ReadyEngine({"lufs"})

NextLufs ==
  \E td \in LufsFrames :
    /\ frameCount < LufsRunFrames
    /\ ProcessFrame([timeData |-> td, freqData |-> SilentSpectrum,
                     yin |-> NoPitch], clock + FrameMs)

SpecLufs == InitLufs /\ [][NextLufs]_vars

\* frames were processed and every one of them was silent: the short-term
\* buffer (which has not yet evicted a block) holds one zero per frame, and no
\* filter holds a non-zero sample
OnlySilenceSoFar ==
  /\ frameCount > 0
  /\ frameCount <= ShortTermLen
  /\ "lufs" \in DOMAIN moduleStates
  /\ moduleStates["lufs"].shortTermBuffer = [i \in 1..frameCount |-> 0]
  /\ \A f \in {"preFilter", "hpFilter"}, k \in {"x1", "x2", "y1", "y2"} :
       moduleStates["lufs"].filters[f][k] = 0

\* C12: while every frame processed from a fresh loudness state was silent,
\* the frame reports momentary, shortTerm and integrated = -Infinity.
SilenceIsNegInfLoudness ==
  OnlySilenceSoFar =>
    /\ result.lufs.momentary = NegInf
    /\ result.lufs.shortTerm = NegInf
    /\ result.lufs.integrated = NegInf

\* three silent frames were processed and the third reports -Infinity
SilenceIsNegInfLoudnessWitness ==
  /\ OnlySilenceSoFar
  /\ frameCount = 3
  /\ result.lufs.momentary = NegInf
  /\ result.lufs.integrated = NegInf

\* C14: in every frame momentary, shortTerm and integrated are a finite
\* number or -Infinity, never NaN (or +Infinity), and lra is a finite number.
LoudnessNeverNaN ==
  "lufs" \in DOMAIN result =>
    /\ \A f \in {"momentary", "shortTerm", "integrated"} :
         result.lufs[f] \notin {JsNaN, PosInf}
    /\ result.lufs.lra \notin {JsNaN, PosInf, NegInf}

\* a frame after silent and loud ones: silent blocks are in the short-term
\* buffer, the integrated loudness is finite and the range is positive
LoudnessNeverNaNWitness ==
  /\ "lufs" \in DOMAIN result
  /\ \E i \in 1..Len(moduleStates["lufs"].shortTermBuffer) :
       moduleStates["lufs"].shortTermBuffer[i] = 0
  /\ result.lufs.integrated # NegInf
  /\ result.lufs.momentary # NegInf
  /\ result.lufs.lra > 0

----------------------------------------------------------------------------
\* SpecSilence: the clipping, onset and feedback analyzers from fresh state
\* on a stream of silent frames (every sample 0, every magnitude at
\* minDecibels), the frames one or two animation-frame periods apart.

InitSilence == ReadyEngine({"clipping", "onset", "feedback"})

NextSilence ==
  \E periods \in {1, 2} :
    /\ frameCount < SilenceRunFrames
    /\ ProcessFrame([timeData |-> Burst(0), freqData |-> SilentSpectrum,
                     yin |-> NoPitch], clock + periods * FrameMs)

SpecSilence == InitSilence /\ [][NextSilence]_vars

\* C13: on silence from fresh state every frame reports isClipping,
\* clipLedActive, isOnset and isFeedbackRisk false, and emits no clip, onset
\* or feedback event.
SilenceRaisesNoAlarm ==
  frameCount > 0 =>
    /\ ~result.clipping.isClipping
    /\ ~result.clipping.clipLedActive
    /\ ~result.onset.isOnset
    /\ ~result.feedback.isFeedbackRisk
    /\ EmittedNames \cap {"clip", "onset", "feedback"} = {}

\* a silent frame after the feedback history has filled and the onset flux
\* history has begun to evict
SilenceRaisesNoAlarmWitness ==
  /\ frameCount > FreqHistoryLen
  /\ Len(moduleStates["feedback"].freqHistory) = FreqHistoryLen
  /\ Len(moduleStates["onset"].fluxHistory) = FluxHistoryLen
  /\ ~result.clipping.isClipping
  /\ ~result.onset.isOnset
  /\ ~result.feedback.isFeedbackRisk

----------------------------------------------------------------------------
\* SpecPitch: the pitch analyzer on the outcomes of the lag search: no lag
\* (silence), or a lag of 48 or 400 samples whose refinement is the lag
\* itself, a fraction off it, NaN or negative, with a CMNDF value at the lag
\* between 0 and 1.5.

YinOutcomes ==
  {NoPitch}
    \cup [tauEstimate : {48, 400},
          betterTau : {48 * 1000, 400 * 1000 + 250, JsNaN, -500},
          cmndf : {0, 50, 499, 500, 501, 1000, 1500}]

InitPitch == ReadyEngine({"pitch"})

NextPitch ==
  \E yin \in YinOutcomes :
    /\ frameCount < PitchRunFrames
    /\ ProcessFrame([timeData |-> Burst(0), freqData |-> SilentSpectrum,
                     yin |-> yin], clock + FrameMs)

SpecPitch == InitPitch /\ [][NextPitch]_vars

\* C16: in every pitch result frequency is 0 when confidence is not above
\* 0.5 and is rawFrequency when it is, and confidence lies within [0, 1].
PitchGatedByConfidence ==
  "pitch" \in DOMAIN result =>
    /\ result.pitch.confidence <= 500 => result.pitch.frequency = 0
    /\ result.pitch.confidence > 500 =>
         result.pitch.frequency = result.pitch.rawFrequency
    /\ result.pitch.confidence >= 0
    /\ result.pitch.confidence <= 1000

\* a result with a raw frequency that the gate holds back at a confidence of
\* exactly 0.5
PitchGatedByConfidenceWitness ==
  /\ "pitch" \in DOMAIN result
  /\ result.pitch.confidence = 500
  /\ result.pitch.rawFrequency > 0
  /\ result.pitch.frequency = 0

----------------------------------------------------------------------------
\* SpecTempo: the onset analyzer from fresh state on a click train of 120
\* BPM: a frame every FrameMs of silence, and every ClickMs a frame that
\* holds a click (a loud or a faint one) in the model's bins.

ClickLevels == {-10, -60}

NextClickTime == ClickMs * (clock \div ClickMs + 1)

InitTempo == ReadyEngine({"onset"})

QuietFrame ==
  /\ clock + FrameMs < NextClickTime
  /\ ProcessFrame([timeData |-> Burst(0), freqData |-> SilentSpectrum,
                   yin |-> NoPitch], clock + FrameMs)

ClickFrame ==
  \E level \in ClickLevels :
    /\ clock + FrameMs >= NextClickTime
    /\ NextClickTime <= TempoRunClicks * ClickMs
    /\ ProcessFrame([timeData |-> Burst(0),
                     freqData |-> [b \in ModelBins |-> level],
                     yin |-> NoPitch], NextClickTime)

NextTempo == QuietFrame \/ ClickFrame

SpecTempo == InitTempo /\ [][NextTempo]_vars

\* the onsets the tracker holds were detected ClickMs apart
OnsetsEvenlySpaced ==
  /\ "onset" \in DOMAIN moduleStates
  /\ \A i \in 2..Len(moduleStates["onset"].onsetTimes) :
       moduleStates["onset"].onsetTimes[i]
         - moduleStates["onset"].onsetTimes[i - 1] = ClickMs

\* C17: once 4 onsets of a click train with a constant spacing of 500 ms
\* were detected, the smoothed BPM is within 120 +- 2, and it stays there.
TempoOfClickTrain ==
  (OnsetsEvenlySpaced /\ Len(moduleStates["onset"].onsetTimes) >= 4) =>
    /\ result.onset.bpm >= 118
    /\ result.onset.bpm <= 122
    /\ result.onset.bpmRaw >= 11800
    /\ result.onset.bpmRaw <= 12200

\* the frame of the fourth onset reports 120 BPM
TempoOfClickTrainWitness ==
  /\ OnsetsEvenlySpaced
  /\ Len(moduleStates["onset"].onsetTimes) = 4
  /\ result.onset.isOnset
  /\ result.onset.bpm = 120

----------------------------------------------------------------------------
\* SpecKey: the key estimator on spectra whose pitch-class energies are a
\* key profile (scaled by a gain) with its tonic on any of the 12 pitch
\* classes, or are the same in every pitch class.

\* a profile with its tonic on pitch class r
RotatedTo(profile, r) == [pc \in 0..11 |-> profile[(pc + 12 - r) % 12]]

\* the energy that stands for a profile value of 0.01
Gain == 3

ChromaInputs ==
  {[pc \in 0..11 |-> Gain * RotatedTo(profile, r)[pc]] :
     profile \in {MAJOR_PROFILE, MINOR_PROFILE}, r \in 0..11}
    \cup {[pc \in 0..11 |-> 0], [pc \in 0..11 |-> 7]}

InitKey == ReadyEngine({"chroma"})

NextKey ==
  \E energies \in ChromaInputs :
    /\ frameCount < KeyRunFrames
    /\ ProcessFrame([timeData |-> Burst(0), freqData |-> SilentSpectrum,
                     yin |-> NoPitch, chroma |-> energies], clock + FrameMs)

SpecKey == InitKey /\ [][NextKey]_vars

\* C18: for the chroma of a major (minor) profile with its tonic on pitch
\* class r, the estimator returns NOTE_NAMES[r] and 'major' ('minor'), for
\* every r in 0..11; for r = 7 the key is 'G'.
KeyOfRotatedProfile ==
  "chroma" \in DOMAIN result =>
    \A r \in 0..11 :
      /\ result.chroma.chroma = Normalize(RotatedTo(MAJOR_PROFILE, r)) =>
           /\ result.chroma.key = NOTE_NAMES[r]
           /\ result.chroma.mode = "major"
      /\ result.chroma.chroma = Normalize(RotatedTo(MINOR_PROFILE, r)) =>
           /\ result.chroma.key = NOTE_NAMES[r]
           /\ result.chroma.mode = "minor"

\* the major profile with its tonic on G was estimated as G major
KeyOfRotatedProfileWitness ==
  /\ "chroma" \in DOMAIN result
  /\ result.chroma.chroma = Normalize(RotatedTo(MAJOR_PROFILE, 7))
  /\ result.chroma.key = "G"
  /\ result.chroma.mode = "major"

----------------------------------------------------------------------------
\* SpecHold: the clipping and feedback analyzers with their hold counters.
\* The input is a tone that sounds from the first frame and, once it has
\* stopped, stays off, with full-scale samples in any of the first
\* HoldClipFrames frames.

InitHold == ReadyEngine({"clipping", "feedback"})

NextHold ==
  \E td \in {Burst(0), Burst(FullScale)}, fd \in {SilentSpectrum, Tone} :
    /\ frameCount < HoldRunFrames
    /\ fd = Tone => (frameCount = 0 \/ heap[freqDataRef] = Tone)
    /\ td = Burst(FullScale) => frameCount < HoldClipFrames
    /\ ProcessFrame([timeData |-> td, freqData |-> fd, yin |-> NoPitch],
                    clock + FrameMs)

SpecHold == InitHold /\ [][NextHold]_vars

\* state.clipHold as ClippingModule.process finds it (0 when it is not set)
ClipHoldOf(st) ==
  IF "clipping" \in DOMAIN st /\ "clipHold" \in DOMAIN st["clipping"]
    THEN st["clipping"].clipHold ELSE 0

\* state.holdCounter as FeedbackModule.process finds it
HoldCounterOf(st) ==
  IF "feedback" \in DOMAIN st /\ "holdCounter" \in DOMAIN st["feedback"]
    THEN st["feedback"].holdCounter ELSE 0

\* a counter after a frame that does not re-trigger it
CountedDown(hold) == IF hold > 0 THEN hold - 1 ELSE 0

\* C19: clipHold and holdCounter are non-negative integers in every state,
\* and a frame that does not re-trigger the condition (the frame does not
\* clip; no ringing is found) lowers the counter by 1 when it is positive and
\* leaves it at 0 otherwise.
HoldCountersWellBehaved ==
  /\ [](ClipHoldOf(moduleStates) \in Nat /\ HoldCounterOf(moduleStates) \in Nat)
  /\ [][FrameStep =>
          /\ ~result'.clipping.isClipping =>
               ClipHoldOf(moduleStates') = CountedDown(ClipHoldOf(moduleStates))
          /\ result'.feedback.notchSuggestion = JsNull =>
               HoldCounterOf(moduleStates')
                 = CountedDown(HoldCounterOf(moduleStates))]_vars

\* a frame that re-triggers neither counter: the feedback hold is running
\* down after the ringing has ended and the clip hold has run out
HoldCountersWellBehavedWitness ==
  /\ frameCount > ClipHoldFrames
  /\ ~result.clipping.isClipping
  /\ moduleStates["clipping"].clipCount > 0
  /\ moduleStates["clipping"].clipHold = 0
  /\ result.feedback.notchSuggestion = JsNull
  /\ moduleStates["feedback"].holdCounter > 0
  /\ moduleStates["feedback"].holdCounter < FeedbackHoldFrames - 1

----------------------------------------------------------------------------
\* SpecBuffers: the six analyzers that keep circular buffers, from fresh
\* state, on a run long enough to fill the longest of them.  The signal is
\* loud for the first BuffersLoudFrames frames and then faint or silent; a
\* click sounds in bin 85 every 13 or 14 frames, and the level of the low bin
\* changes with every other click.

InitBuffers ==
  ReadyEngine({"lufs", "dynamics", "onset", "feedback", "rt60",
               "standingWaves"})

LoudAmplitudes == {FullScale \div 2, (9 * FullScale) \div 10}

\* the amplitude of frame n when it is not free
PatternAmplitude(n) ==
  IF n < BuffersLoudFrames
    THEN IF n % 3 = 0 THEN (9 * FullScale) \div 10 ELSE FullScale \div 2
    ELSE IF n % 5 = 0 THEN 1 ELSE 0

\* the spectrum of frame n
PatternSpectrum(n) ==
  [b \in ModelBins |->
     CASE b = 85 -> IF n % 27 \in {0, 13} THEN -10 ELSE MinDecibels
       [] b = 20 -> <<-30, -60, MinDecibels>>[((n \div 27) % 3) + 1]
       [] OTHER -> MinDecibels]

NextBuffers ==
  \E amplitude \in LoudAmplitudes \cup {PatternAmplitude(frameCount)} :
    /\ frameCount < BuffersRunFrames
    /\ amplitude = PatternAmplitude(frameCount)
         \/ frameCount < BuffersFreeFrames
    /\ ProcessFrame([timeData |-> Burst(amplitude),
                     freqData |-> PatternSpectrum(frameCount),
                     yin |-> NoPitch], clock + FrameMs)

SpecBuffers == InitBuffers /\ [][NextBuffers]_vars

\* the circular buffers: the module that owns each, its field and its capacity
Buffers ==
  {[module |-> "lufs", field |-> "momentaryBuffer", cap |-> MomentaryLen],
   [module |-> "lufs", field |-> "shortTermBuffer", cap |-> ShortTermLen],
   [module |-> "dynamics", field |-> "rmsHistory", cap |-> RmsHistoryLen],
   [module |-> "dynamics", field |-> "peakHistory", cap |-> RmsHistoryLen],
   [module |-> "onset", field |-> "fluxHistory", cap |-> FluxHistoryLen],
   [module |-> "onset", field |-> "onsetTimes", cap |-> OnsetTimesLen],
   [module |-> "onset", field |-> "bpmHistory", cap |-> BpmHistoryLen],
   [module |-> "feedback", field |-> "freqHistory", cap |-> FreqHistoryLen],
   [module |-> "standingWaves", field |-> "swHistory", cap |-> SwHistoryLen],
   [module |-> "rt60", field |-> "rt60Samples", cap |-> Rt60SamplesLen]}

\* the buffers that are pushed to on an onset only
OnsetBuffers == {"onsetTimes", "bpmHistory"}

\* the content of a buffer (empty before its module has run)
BufferOf(st, b) ==
  IF b.module \in DOMAIN st /\ b.field \in DOMAIN st[b.module]
    THEN st[b.module][b.field] ELSE <<>>

\* after is before with one entry pushed: appended while there is room, and
\* in place of the oldest entry once the buffer is full
PushedFifo(before, after, cap) ==
  IF Len(before) < cap
    THEN Len(after) = Len(before) + 1
           /\ SubSeq(after, 1, Len(before)) = before
    ELSE Len(after) = cap /\ SubSeq(after, 1, cap - 1) = Tail(before)

\* C20: no circular buffer ever holds more entries than its capacity, and a
\* frame pushes one entry to each buffer (to onsetTimes and bpmHistory at
\* most one), evicting the oldest entry, and only it, once the buffer is
\* full.
BuffersWithinCapacity ==
  /\ [](\A b \in Buffers : Len(BufferOf(moduleStates, b)) <= b.cap)
  /\ [][FrameStep =>
          \A b \in Buffers :
            \/ PushedFifo(BufferOf(moduleStates, b),
                          BufferOf(moduleStates', b), b.cap)
            \/ /\ b.field \in OnsetBuffers
               /\ BufferOf(moduleStates', b) = BufferOf(moduleStates, b)]_vars

\* every buffer is full and has evicted entries: more frames have run than
\* the longest buffer holds, the first onsets have left onsetTimes, and the
\* entries of each buffer differ
BuffersWithinCapacityWitness ==
  /\ frameCount > Rt60SamplesLen
  /\ \A b \in Buffers :
       /\ Len(BufferOf(moduleStates, b)) = b.cap
       /\ \E i \in 1..b.cap :
            BufferOf(moduleStates, b)[i] # BufferOf(moduleStates, b)[1]
  /\ moduleStates["onset"].onsetTimes[1] > 2 * 27 * FrameMs


----------------------------------------------------------------------------
\* SpecLed: the clipping analyzer next to the dynamics analyzer, whose
\* peakHistory keeps the peak level of every frame of the run.  A first
\* full-scale frame falls in the first LedFirstFrames frames, further ones in
\* the first LedClipFrames frames; the other frames are silent and loud in turn.

InitLed == ReadyEngine({"clipping", "dynamics"})

\* the peak levels of the frames processed so far
PeakLevels ==
  IF "dynamics" \in DOMAIN moduleStates
    THEN moduleStates["dynamics"].peakHistory ELSE <<>>

\* the frames processed so far in which isClipping was true
ClipEventFrames ==
  {i \in 1..Len(PeakLevels) : PeakLevels[i] > ClipThresholdCdb}

\* the frame that does not clip: silent and loud frames take turns
UnclippedFrame ==
  IF frameCount % 2 = 0 THEN Burst((9 * FullScale) \div 10) ELSE Burst(0)

NextLed ==
  \E td \in {Burst(FullScale), UnclippedFrame} :
    /\ frameCount < LedRunFrames
    /\ LinToDb(MaxAbs(td)) > ClipThresholdCdb =>
         /\ Cardinality(ClipEventFrames) < MaxLedClips
         /\ frameCount < LedClipFrames
         /\ ClipEventFrames = {} => frameCount < LedFirstFrames
    /\ ClipEventFrames = {} => frameCount < LedFirstFrames + 2
    /\ ProcessFrame([timeData |-> td, freqData |-> SilentSpectrum,
                     yin |-> NoPitch], clock + FrameMs)

SpecLed == InitLed /\ [][NextLed]_vars

\* the frames processed since the last clip event (0 in the frame of the
\* event), for a run that holds one
SinceClip ==
  Len(PeakLevels) - (CHOOSE i \in ClipEventFrames :
                       \A j \in ClipEventFrames : j <= i)

\* the clip indicator is active in the frame of a clip event and in the
\* `held` frames that follow the last event, and in no other frame
LedHeldFor(held) ==
  "clipping" \in DOMAIN result =>
    (result.clipping.clipLedActive
       <=> (ClipEventFrames # {} /\ SinceClip <= held))

\* C21 as stated: the clip indicator is active for the 60 frames that follow
\* the last clip event and inactive afterwards.
LedHeldSixtyAfter == LedHeldFor(ClipHoldFrames)

\* C21: the clip indicator is active in the frame of a clip event and in the
\* 59 frames that follow the last event (60 frames with the event's own), and
\* inactive in every other frame; a clip event during the hold starts the
\* count again.
LedHeldSixtyWithEvent == LedHeldFor(ClipHoldFrames - 1)

\* a second clip event fell into the hold of the first, and the indicator is
\* in the last frame of the restarted hold
LedHeldSixtyWithEventWitness ==
  /\ "clipping" \in DOMAIN result
  /\ result.clipping.totalClipEvents = 2
  /\ \E i, j \in ClipEventFrames : i < j /\ j - i < ClipHoldFrames
  /\ SinceClip = ClipHoldFrames - 1
  /\ result.clipping.clipLedActive


----------------------------------------------------------------------------
\* SpecOnset: the onset analyzer from fresh state, a frame every FrameMs.  The
\* spectrum of each of the first OnsetFreeFrames frames is silent or holds
\* the tone; after them the tone goes on and off with every frame, so that
\* the flux rises every other frame.

InitOnset == ReadyEngine({"onset"})

NextOnset ==
  \E fd \in {SilentSpectrum, Tone} :
    /\ frameCount < OnsetRunFrames
    /\ frameCount >= OnsetFreeFrames => fd # heap[freqDataRef]
    /\ ProcessFrame([timeData |-> Burst(0), freqData |-> fd, yin |-> NoPitch],
                    clock + FrameMs)

SpecOnset == InitOnset /\ [][NextOnset]_vars

\* a field of the onset analyzer's state (empty before its first frame)
OnsetBuffer(st, field) ==
  IF "onset" \in DOMAIN st /\ field \in DOMAIN st["onset"]
    THEN st["onset"][field] ELSE <<>>

\* C22: a frame reports an onset only if its flux exceeds 1.5 times the mean
\* of the flux history of at most 20 frames that ends with it; the frames
\* that report an onset are the frames whose time enters onsetTimes, any two
\* of them are more than minOnsetGap frames apart, and the first frame
\* reports none.
OnsetsGapped ==
  /\ [][FrameStep =>
          With(OnsetBuffer(moduleStates', "fluxHistory"), LAMBDA history :
          With(OnsetBuffer(moduleStates', "onsetTimes"), LAMBDA times :
            /\ Len(history) <= FluxHistoryLen
            /\ history[Len(history)] = result'.onset.flux
            /\ result'.onset.isOnset =>
                 /\ 2 * result'.onset.flux * Len(history)
                      > 3 * SumSeq(history)
                 /\ times # <<>>
                 /\ times[Len(times)] = result'.timestamp
                 /\ result'.frame > 1
            /\ ~result'.onset.isOnset =>
                 times = OnsetBuffer(moduleStates, "onsetTimes")))]_vars
  /\ [](\A i \in 2..Len(OnsetBuffer(moduleStates, "onsetTimes")) :
          OnsetBuffer(moduleStates, "onsetTimes")[i]
              - OnsetBuffer(moduleStates, "onsetTimes")[i - 1]
            > MinOnsetGap * FrameMs)

\* two onsets as close as the gap allows, with a rise of the flux between
\* them that was not reported
OnsetsGappedWitness ==
  /\ "onset" \in DOMAIN result
  /\ result.onset.isOnset
  /\ With(OnsetBuffer(moduleStates, "onsetTimes"), LAMBDA times :
       /\ Len(times) >= 2
       /\ times[Len(times)] - times[Len(times) - 1]
            = (MinOnsetGap + 1) * FrameMs)
  /\ With(OnsetBuffer(moduleStates, "fluxHistory"), LAMBDA history :
       /\ Len(history) > 2
       /\ history[Len(history) - 2] > 0)


\* C23: in every frame the confidence of the onset analyzer is a number
\* within [0, 1], and it is 0 while fewer than 4 onsets have been observed.
OnsetConfidenceBounded ==
  "onset" \in DOMAIN result =>
    /\ result.onset.confidence \in 0..1000
    /\ Len(OnsetBuffer(moduleStates, "onsetTimes")) < 4 =>
         result.onset.confidence = 0


----------------------------------------------------------------------------
\* SpecGate: the loudness analyzer alone, from a fresh state, on frames of
\* silence, of one sample at the smallest amplitude of the grid (a block of
\* about -70 LUFS) and of one soft sample (a block of about -55 LUFS, after
\* which the filters are at rest again).

GateFrames == {Burst(0), Burst(1), Burst(8)}

InitGate == ReadyEngine({"lufs"})

NextGate ==
  \E td \in GateFrames :
    /\ frameCount < GateRunFrames
    /\ ProcessFrame([timeData |-> td, freqData |-> SilentSpectrum,
                     yin |-> NoPitch], clock + FrameMs)

SpecGate == InitGate /\ [][NextGate]_vars

\* the integrated loudness a result reports is a finite number (no result
\* reports one before the first frame)
IntegratedFinite(res) ==
  /\ "lufs" \in DOMAIN res
  /\ res.lufs.integrated \notin {NegInf, PosInf, JsNaN}

\* C24: the integrated loudness turns finite only in a frame whose momentary
\* loudness exceeds the absolute gate of -70 LUFS, so that it is -Infinity in
\* every frame before the first such frame, and a finite integrated loudness
\* is finite in the next frame too.
IntegratedGated ==
  /\ []("lufs" \in DOMAIN result =>
          (result.lufs.integrated = NegInf \/ IntegratedFinite(result)))
  /\ [][FrameStep =>
          /\ (IntegratedFinite(result') /\ ~IntegratedFinite(result)) =>
               LevelGreater(result'.lufs.momentary, -7000)
          /\ IntegratedFinite(result) => IntegratedFinite(result')]_vars

\* the run began with a silent frame and a faint frame that did not pass the
\* gate, a later frame passed it, and the integrated loudness is still finite
\* in a frame that does not pass it
IntegratedGatedWitness ==
  /\ IntegratedFinite(result)
  /\ ~LevelGreater(result.lufs.momentary, -7000)
  /\ With(moduleStates["lufs"], LAMBDA state :
       /\ state.shortTermBuffer[1] = 0
       /\ state.shortTermBuffer[2] > 0
       /\ Len(state.integratedBlocks) <= Len(state.shortTermBuffer) - 3)

----------------------------------------------------------------------------
\* SpecMel: a page that creates engines with the fftSize options of
\* MelFftSizes one after the other, each running the MFCC analyzer, for
\* MelTicks frames in all; MfccModule is the one object all of them share.

MelFftSizes == {2048, 4096, 8192}

MelOptions == {EmptyObject} \cup {[fftSize |-> f] : f \in MelFftSizes}

InitMel == \E opts \in MelOptions : ConstructedFrom(opts, {"mfcc"})

\* the page replaces its stopped engine by new OrdoAudio(opts).use(...modules)
NewEngine(opts, modules) ==
  /\ ~isRunning
  /\ rafPending = {}
  /\ initPending = 0
  /\ closePending = 0
  /\ callerOptions' = opts
  /\ options' = ConstructorOptions(opts)
  /\ analyserSettings' = EmptyObject
  /\ activeModules' = modules
  /\ moduleStates' = EmptyObject
  /\ listeners' = EmptyObject
  /\ animFrameId' = 0
  /\ frameCount' = 0
  /\ audioContext' = "null"
  /\ analyser' = FALSE
  /\ timeDataRef' = 0
  /\ freqDataRef' = 0
  /\ heap' = EmptyObject
  /\ result' = NoResult
  /\ emitted' = <<>>
  /\ UNCHANGED <<isRunning, rafPending, initPending, closePending, clock,
                 melFilterbank>>

NextMel ==
  \/ \E opts \in MelOptions : frameCount > 0 /\ NewEngine(opts, {"mfcc"})
  \/ audioContext # "running" /\ InitStream
  \/ \E fd \in {SilentSpectrum, Tone} :
       /\ clock < MelTicks * FrameMs
       /\ ProcessFrame([timeData |-> Burst(0), freqData |-> fd,
                        yin |-> NoPitch], clock + FrameMs)

SpecMel == InitMel /\ [][NextMel]_vars

\* C25: every MFCC call uses a filterbank built for exactly the sampleRate
\* and fftSize passed to that call: after a frame that ran the MFCC analyzer,
\* the cached filterbank is the one _buildMelFilterbank gives for the frame's
\* sampleRate and fftSize, also after an engine was re-created with another
\* fftSize.
MelFilterbankPerPair ==
  "mfcc" \in DOMAIN result =>
    melFilterbank = BuildMelFilterbank(result.sampleRate, result.fftSize)

----------------------------------------------------------------------------
\* SpecDecay: the RT60 analyzer alone.  The signal is loud for
\* DecayLoudFrames frames (the first two may be silent instead), then quiet
\* (-40 dBFS) for any number of frames, then silent.

InitDecay == ReadyEngine({"rt60"})

\* the amplitudes whose frames have an RMS level of -6 and of -40 dBFS
LoudAmplitude == FullScale \div 2

QuietAmplitude == FullScale \div 72

NextDecay ==
  \E amplitude \in {0, QuietAmplitude, LoudAmplitude} :
    /\ frameCount < DecayRunFrames
    /\ IF frameCount < DecayLoudFrames
         THEN amplitude = LoudAmplitude \/ (frameCount < 2 /\ amplitude = 0)
         ELSE \/ amplitude = 0
              \/ /\ amplitude = QuietAmplitude
                 /\ result.rt60.currentRmsDb # NegInf
    /\ ProcessFrame([timeData |-> Burst(amplitude),
                     freqData |-> SilentSpectrum,
                     yin |-> NoPitch], clock + FrameMs)

SpecDecay == InitDecay /\ [][NextDecay]_vars

\* the state of the RT60 analyzer, as its first call initialises it
Rt60State(st) ==
  IF "rt60" \in DOMAIN st THEN st.rt60
  ELSE [rt60Samples |-> <<>>, isDecaying |-> FALSE, decayStart |-> 0,
        rt60 |-> JsNull]

\* more than 50 samples, the older window's mean above -20 dBFS and the
\* recent window's mean at least 15 dB below it
DecayEntryAllowed(samples) ==
  /\ Len(samples) > 50
  /\ LET older == SliceEnd(samples, -50, -40)
         recent == SliceEnd(samples, -10, 0)
         olderMean == LevelMean([i \in 1..Len(older) |-> older[i].db])
         recentMean == LevelMean([i \in 1..Len(recent) |-> recent[i].db])
     IN  /\ Len(older) = 10
         /\ Len(recent) = 10
         /\ olderMean > -2000
         /\ recentMean <= olderMean - 1500

\* C26: in every frame of the RT60 analyzer: the decaying flag goes from
\* false to true only with more than 50 samples in the history, the older
\* window's mean above -20 dBFS and the recent window's mean at least 15 dB
\* below it; a frame that finds the flag set and a level more than 60 dB
\* below the decay-start level stores the time since the decay start in rt60
\* and clears the flag, and one whose level is not that low leaves the flag
\* and rt60 alone; a frame that finds the flag clear changes rt60 only when
\* the entry condition holds and its own level is more than 60 dB below the
\* decay-start level; rt60 is null until it is stored.
Rt60StateMachine ==
  [][(FrameStep /\ "rt60" \in activeModules) =>
       LET pre == Rt60State(moduleStates)
           post == moduleStates'.rt60
           level == result'.rt60.currentRmsDb
           stored == /\ post.rt60 = clock' - post.decayStartTime
                     /\ ~post.isDecaying
       IN  /\ result'.rt60.rt60 = post.rt60
           /\ result'.rt60.isDecaying = post.isDecaying
           /\ (~pre.isDecaying /\ post.isDecaying) =>
                DecayEntryAllowed(post.rt60Samples)
           /\ pre.isDecaying =>
                /\ post.decayStart = pre.decayStart
                /\ post.decayStartTime = pre.decayStartTime
                /\ IF level < pre.decayStart - 6000
                     THEN stored
                     ELSE post.isDecaying /\ post.rt60 = pre.rt60
           /\ (~pre.isDecaying /\ post.rt60 # pre.rt60) =>
                /\ DecayEntryAllowed(post.rt60Samples)
                /\ level < post.decayStart - 6000
                /\ stored]_vars

\* a decay that lasted more than ten frames has been measured: rt60 holds a
\* time longer than the 60 frames from the older window to its detection
Rt60StateMachineWitness ==
  /\ "rt60" \in DOMAIN result
  /\ ~result.rt60.isDecaying
  /\ result.rt60.rt60 # JsNull
  /\ result.rt60.rt60 > 60 * FrameMs

----------------------------------------------------------------------------
\* SpecSamplePeak: the true-peak analyzer next to the clipping analyzer,
\* whose peakDb is the plain sample peak, on every frame of TimeFrames

InitSamplePeak == ReadyEngine({"truePeak", "clipping"})

NextSamplePeak ==
  \E td \in TimeFrames :
    /\ frameCount < SamplePeakRunFrames
    /\ ProcessFrame([timeData |-> td, freqData |-> SilentSpectrum,
                     yin |-> NoPitch], clock + FrameMs)

SpecSamplePeak == InitSamplePeak /\ [][NextSamplePeak]_vars

\* C27: in every frame the truePeak of the true-peak analyzer is greater than
\* or equal to the sample peak of the same frame (peakDb of the clipping
\* analyzer), wherever in the frame the largest sample lies.
TruePeakCoversSamplePeak ==
  "truePeak" \in DOMAIN result =>
    result.truePeak.truePeak >= result.clipping.peakDb

----------------------------------------------------------------------------
\* SpecLoop: the analysis loop with 'frame' listeners that call stop() and
\* start() on the engine, or throw.  A listener runs inside the loop iteration, between
\* _emit('frame', result) and the requestAnimationFrame that ends it.

\* the loop fields of the engine after start()
StartOn(s) ==
  IF s.isRunning THEN s
  ELSE [isRunning |-> TRUE,
        animFrameId |-> NewRafId(s.rafPending, s.animFrameId),
        rafPending |->
          s.rafPending \cup {NewRafId(s.rafPending, s.animFrameId)}]

\* the loop fields of the engine after stop()
StopOn(s) ==
  [isRunning |-> FALSE,
   animFrameId |-> 0,
   rafPending |-> s.rafPending \ {s.animFrameId}]

\* the engine calls each callback makes: "observer" none, "stopper" stop(),
\* "restarter" stop() and then start(); "thrower" makes none and throws
ListenerCalls(callback) ==
  CASE callback = "stopper" -> <<"stop">>
    [] callback = "restarter" -> <<"stop", "start">>
    [] OTHER -> <<>>

\* _emit(event, data): the calls of the listeners of the event, in the order
\* of their registration
RECURSIVE CallsOf(_)
CallsOf(callbacks) ==
  IF callbacks = <<>> THEN <<>>
  ELSE ListenerCalls(Head(callbacks)) \o CallsOf(Tail(callbacks))

RECURSIVE RunCalls(_, _)
RunCalls(s, calls) ==
  IF calls = <<>> THEN s
  ELSE RunCalls(IF Head(calls) = "start" THEN StartOn(s) ELSE StopOn(s),
                Tail(calls))

\* the listeners forEach calls before one of them throws
BeforeThrow(callbacks) ==
  IF \E i \in 1..Len(callbacks) : callbacks[i] = "thrower"
    THEN SubSeq(callbacks, 1,
                (CHOOSE i \in 1..Len(callbacks) :
                   /\ callbacks[i] = "thrower"
                   /\ \A j \in 1..(i - 1) : callbacks[j] # "thrower") - 1)
    ELSE callbacks

\* the animation-frame callback id runs the loop body; the 'frame' listeners
\* make their calls before the loop requests its next callback, and a
\* listener that throws ends the callback before that request
LoopTickCalling(id, frame, now) ==
  /\ id \in rafPending
  /\ now >= clock
  /\ clock' = now
  /\ IF ~isRunning \/ (analyser /\ timeDataRef = 0)
       THEN /\ rafPending' = rafPending \ {id}
            /\ emitted' = <<>>
            /\ UNCHANGED <<moduleStates, result, heap, frameCount,
                           animFrameId, isRunning, melFilterbank>>
       ELSE With([isRunning |-> isRunning, animFrameId |-> animFrameId,
                  rafPending |-> rafPending \ {id}], LAMBDA s0 :
            With(IF analyser /\ "frame" \in DOMAIN listeners
                   THEN listeners["frame"] ELSE <<>>, LAMBDA callbacks :
            With(RunCalls(s0, CallsOf(BeforeThrow(callbacks))), LAMBDA s1 :
              /\ IF analyser
                   THEN With(FrameEffect(frame, now), LAMBDA effect :
                          /\ moduleStates' = effect.moduleStates
                          /\ result' = effect.result
                          /\ heap' = effect.heap
                          /\ melFilterbank' = effect.melFilterbank
                          /\ frameCount' = frameCount + 1
                          /\ emitted' = effect.events
                                          \o << <<"frame", frameCount + 1>> >>)
                   ELSE /\ emitted' = <<>>
                        /\ UNCHANGED <<moduleStates, result, heap, frameCount,
                                       melFilterbank>>
              /\ isRunning' = s1.isRunning
              /\ IF BeforeThrow(callbacks) # callbacks
                   THEN /\ animFrameId' = s1.animFrameId
                        /\ rafPending' = s1.rafPending
                   ELSE /\ animFrameId' =
                             NewRafId(s1.rafPending, s1.animFrameId)
                        /\ rafPending' =
                             s1.rafPending
                               \cup {NewRafId(s1.rafPending,
                                              s1.animFrameId)})))
  /\ UNCHANGED <<activeModules, listeners, audioContext, analyser,
                 analyserSettings, options, callerOptions,
                 timeDataRef, freqDataRef, initPending, closePending>>

InitLoop == ReadyEngine({"clipping"})

OnLoop ==
  \E callback \in {"observer", "stopper", "restarter", "thrower"} :
    /\ ListenerCount < MaxLoopListeners
    /\ On("frame", callback)

TickLoop ==
  \E id \in rafPending, td \in {Burst(0), Burst(FullScale)} :
    /\ frameCount < LoopRunFrames
    /\ LoopTickCalling(id, [timeData |-> td, freqData |-> SilentSpectrum,
                            yin |-> NoPitch], clock + FrameMs)

NextLoop ==
  \/ OnLoop
  \/ Start
  \/ Stop
  \/ TickLoop

SpecLoop == InitLoop /\ [][NextLoop]_vars

\* C28: after any sequence of start() and stop() calls, calls made by a
\* 'frame' listener during a loop iteration included, at most one
\* animation-frame callback of the analysis loop is pending.
AtMostOneLoop == Cardinality(rafPending) <= 1

\* C29: whenever _isRunning is true between loop iterations, an
\* animation-frame callback of the analysis loop is pending, also after a
\* frame in which a listener threw.
RunningKeepsLoop == isRunning => rafPending # {}

----------------------------------------------------------------------------
\* SpecRestart: the application's power button: startEngine (init, then
\* on('frame'), on('error') and start()) when the engine is off, stopEngine
\* (destroy(), not awaited) when it is on, with the animation-frame loop and
\* the completions of getUserMedia and of audioContext.close() in any order.

InitRestart == Constructed({"clipping"})

\* this._listeners after on(event, callback)
Registered(ls, event, callback) ==
  Put(ls, event,
      Append(IF event \in DOMAIN ls THEN ls[event] ELSE <<>>, callback))

\* startEngine up to await ordo.init('microphone')
StartEngineBegin ==
  /\ ~isRunning
  /\ initPending = 0
  /\ InitBegin

\* startEngine after init resolved: the end of init, on('frame', updateUI),
\* on('error', ...) and start()
StartEngineResume ==
  /\ initPending > 0
  /\ initPending' = initPending - 1
  /\ FinishInit
  /\ listeners' = Registered(Registered(listeners, "frame", "updateUI"),
                             "error", "showError")
  /\ With(StartOn([isRunning |-> isRunning, animFrameId |-> animFrameId,
                   rafPending |-> rafPending]), LAMBDA s :
       /\ isRunning' = s.isRunning
       /\ animFrameId' = s.animFrameId
       /\ rafPending' = s.rafPending)
  /\ UNCHANGED <<activeModules, moduleStates, frameCount, audioContext,
                 analyser, analyserSettings, options, callerOptions, result,
                 closePending, clock, melFilterbank>>

\* stopEngine: destroy() up to its await
StopEngine ==
  /\ isRunning
  /\ closePending = 0
  /\ DestroyBegin

TickRestart ==
  \E id \in rafPending, td \in {Burst(0), Burst(FullScale)} :
    /\ frameCount < RestartRunFrames
    /\ LoopTick(id, [timeData |-> td, freqData |-> SilentSpectrum,
                     yin |-> NoPitch], clock + FrameMs)

NextRestart ==
  \/ StartEngineBegin
  \/ StartEngineResume
  \/ InitReject
  \/ StopEngine
  \/ DestroyResume
  \/ TickRestart

SpecRestart == InitRestart /\ [][NextRestart]_vars

\* C30: once startEngine has run to its end and no destroy() is suspended,
\* the 'frame' and 'error' listeners that startEngine registered are
\* registered, whatever the order of destroy()'s continuation and the new
\* init() and on() calls.
RestartKeepsListeners ==
  (isRunning /\ initPending = 0 /\ closePending = 0) =>
    /\ "frame" \in DOMAIN listeners
    /\ "error" \in DOMAIN listeners
    /\ \E i \in 1..Len(listeners["frame"]) : listeners["frame"][i] = "updateUI"
    /\ \E i \in 1..Len(listeners["error"]) : listeners["error"][i] = "showError"

====
